---- MODULE Spec2Model ----
(***************************************************************************)
(* Sync Shuttle server registry (src/lib/config_parser.py).                *)
(*                                                                         *)
(* The registry document servers.toml is modelled as the text that is on   *)
(* disk: a sequence of characters.  Every command loads it with the TOML   *)
(* reader (load_config), works on the ordered mapping it obtained and, for *)
(* set / add / remove, writes the whole text again (write_toml).  A text   *)
(* is a sequence of one-character strings, so that what write_toml emits   *)
(* and what the TOML reader makes of it are computed, not assumed.         *)
(***************************************************************************)
EXTENDS Integers, Sequences, FiniteSets, TLC

(***************************************************************************)
(* Characters and texts                                                    *)
(***************************************************************************)
NL == "\n"
DQ == "\""
SQ == "'"
BSL == "\\"
TAB == "\t"
\* the control character U+0008, which the TOML escape \b denotes
BSP == "<U+0008>"

\* a TLA+ string literal as a sequence of its characters
Chars(str) == [i \in 1..Len(str) |-> SubSeq(str, i, i)]

LowerSeq == Chars("abcdefghijklmnopqrstuvwxyz")
UpperSeq == Chars("ABCDEFGHIJKLMNOPQRSTUVWXYZ")
DigitSeq == Chars("0123456789")

Range(s) == {s[i] : i \in 1..Len(s)}

LowerChars == Range(LowerSeq)
UpperChars == Range(UpperSeq)
DigitChars == Range(DigitSeq)

\* str.lower() on one character and on a text
LowerChar(c) ==
    IF c \in UpperChars
    THEN LowerSeq[CHOOSE i \in 1..26 : UpperSeq[i] = c]
    ELSE c

StrLower(s) == [i \in 1..Len(s) |-> LowerChar(s[i])]

\* the value of a decimal digit
DigitVal(c) == (CHOOSE i \in 1..10 : DigitSeq[i] = c) - 1

\* str.isdigit(): non-empty and every character a digit
IsDigit(s) == Len(s) > 0 /\ \A i \in 1..Len(s) : s[i] \in DigitChars

\* int(s) of a text of decimal digits
RECURSIVE StrToInt(_)
StrToInt(s) ==
    IF Len(s) = 0 THEN 0
    ELSE 10 * StrToInt(SubSeq(s, 1, Len(s) - 1)) + DigitVal(s[Len(s)])

\* str(n) of a non-negative integer
RECURSIVE IntToStr(_)
IntToStr(n) ==
    IF n < 10 THEN <<DigitSeq[n + 1]>>
    ELSE IntToStr(n \div 10) \o <<DigitSeq[(n % 10) + 1]>>

\* sep.join(lines)
RECURSIVE Join(_, _)
Join(lines, sep) ==
    IF Len(lines) = 0 THEN <<>>
    ELSE IF Len(lines) = 1 THEN lines[1]
    ELSE lines[1] \o sep \o Join(Tail(lines), sep)

\* the concatenation of a sequence of sequences
RECURSIVE Flatten(_)
Flatten(ss) == IF Len(ss) = 0 THEN <<>> ELSE ss[1] \o Flatten(Tail(ss))

\* str.replace(old, new) for a one-character old
Replace(s, old, new) ==
    Flatten([i \in 1..Len(s) |-> IF s[i] = old THEN new ELSE <<s[i]>>])

\* the field names and literals of the program, as texts
ServersKey == Chars("servers")
EnabledKey == Chars("enabled")
UserKey == Chars("user")
RemoteBaseKey == Chars("remote_base")
NameKey == Chars("name")
HostKey == Chars("host")
PortKey == Chars("port")
IdentityFileKey == Chars("identity_file")
S3BackupKey == Chars("s3_backup")
TrueText == Chars("true")
FalseText == Chars("false")
PyTrueText == Chars("True")
PyFalseText == Chars("False")
EqualsText == Chars(" = ")

(***************************************************************************)
(* Values of a profile field.  t is the Python type the TOML reader or     *)
(* set_field produced; "table" stands for every value that is not a        *)
(* boolean, an integer or a string (write_toml drops those).               *)
(***************************************************************************)
VBool(b) == [t |-> "bool", b |-> b, n |-> 0, s |-> <<>>]
VInt(n) == [t |-> "int", b |-> FALSE, n |-> n, s |-> <<>>]
VStr(s) == [t |-> "str", b |-> FALSE, n |-> 0, s |-> s]
VTable == [t |-> "table", b |-> FALSE, n |-> 0, s |-> <<>>]
\* dict.get(key) of a key that is not there
VNone == [t |-> "none", b |-> FALSE, n |-> 0, s |-> <<>>]

\* str(value)
PyStr(v) ==
    CASE v.t = "bool" -> IF v.b THEN PyTrueText ELSE PyFalseText
      [] v.t = "int" -> IntToStr(v.n)
      [] v.t = "str" -> v.s
      [] v.t = "table" -> Chars("{...}")
      [] OTHER -> Chars("None")

\* bool(value): Python truthiness
Truthy(v) ==
    CASE v.t = "bool" -> v.b
      [] v.t = "int" -> v.n # 0
      [] v.t = "str" -> Len(v.s) > 0
      [] v.t = "table" -> TRUE
      [] OTHER -> FALSE

(***************************************************************************)
(* The ordered mapping of a loaded document: servers in document order,    *)
(* each with its fields in document order.                                 *)
(***************************************************************************)
EmptyConfig == [hasServers |-> FALSE, servers |-> <<>>]

\* config.get("servers", {})
Servers(config) == config.servers

ServerIds(servers) == [i \in 1..Len(servers) |-> servers[i].id]

HasServer(servers, id) == \E i \in 1..Len(servers) : servers[i].id = id

ServerIndex(servers, id) == CHOOSE i \in 1..Len(servers) : servers[i].id = id

\* servers[server_id]
ServerOf(servers, id) == servers[ServerIndex(servers, id)].fields

HasField(fields, key) == \E i \in 1..Len(fields) : fields[i].key = key

FieldIndex(fields, key) == CHOOSE i \in 1..Len(fields) : fields[i].key = key

\* server.get(key)
FieldGet(fields, key) ==
    IF HasField(fields, key) THEN fields[FieldIndex(fields, key)].val ELSE VNone

\* server.get(key, default)
FieldGetDefault(fields, key, default) ==
    IF HasField(fields, key) THEN fields[FieldIndex(fields, key)].val ELSE default

\* server[key] = value: an existing key keeps its place, a new key goes last
FieldPut(fields, key, val) ==
    IF HasField(fields, key)
    THEN [fields EXCEPT ![FieldIndex(fields, key)].val = val]
    ELSE Append(fields, [key |-> key, val |-> val])

\* servers[id] = fields
ServerPut(servers, id, fields) ==
    IF HasServer(servers, id)
    THEN [servers EXCEPT ![ServerIndex(servers, id)].fields = fields]
    ELSE Append(servers, [id |-> id, fields |-> fields])

\* del servers[id]
ServerDel(servers, id) ==
    LET k == ServerIndex(servers, id)
    IN SubSeq(servers, 1, k - 1) \o SubSeq(servers, k + 1, Len(servers))

(***************************************************************************)
(* The TOML reader behind load_config (tomllib.load), for the documents of *)
(* the model: comments, table headers and key = value lines with bare,     *)
(* quoted and dotted keys, and boolean, decimal integer, basic-string and  *)
(* literal-string values.  A construct outside that subset (multi-line     *)
(* strings, arrays, inline tables, floats, dates, \u escapes) is reported  *)
(* as "unsup", never as a valid or an invalid document.                    *)
(***************************************************************************)
FF == "<U+000C>"
CR == "<U+000D>"
EOL == "<EOL>"

Ws == {" ", TAB}
BareKeyChars == LowerChars \cup UpperChars \cup DigitChars \cup {"-", "_"}
\* the characters a key may start with
KeyInitialChars == BareKeyChars \cup {DQ, SQ}
\* control characters, illegal in strings and comments (tab is legal)
CtrlChars == {BSP, FF, CR, NL}

At(l, p) == IF p >= 1 /\ p <= Len(l) THEN l[p] ELSE EOL

RECURSIVE SkipChars(_, _, _)
SkipChars(l, p, set) ==
    IF p <= Len(l) /\ l[p] \in set THEN SkipChars(l, p + 1, set) ELSE p

RECURSIVE SkipUntil(_, _, _)
SkipUntil(l, p, c) ==
    IF p <= Len(l) /\ l[p] # c THEN SkipUntil(l, p + 1, c) ELSE p

NoCtrl(l, from, to) == \A i \in from..to : l[i] \notin CtrlChars

PFail(st, p) == [st |-> st, s |-> <<>>, pos |-> p]

\* the character an escape sequence of a basic string denotes
IsEscape(c) == c \in {"b", "t", "n", "f", "r", DQ, BSL}
EscapeOf(c) ==
    CASE c = "b" -> BSP
      [] c = "t" -> TAB
      [] c = "n" -> NL
      [] c = "f" -> FF
      [] c = "r" -> CR
      [] c = DQ -> DQ
      [] OTHER -> BSL

\* a one-line basic string; p is the position after the opening quote
RECURSIVE ParseBasicStr(_, _, _)
ParseBasicStr(l, p, acc) ==
    IF p > Len(l) THEN PFail("err", p)
    ELSE IF l[p] = DQ THEN [st |-> "ok", s |-> acc, pos |-> p + 1]
    ELSE IF l[p] = BSL
         THEN IF At(l, p + 1) \in {"u", "U"} THEN PFail("unsup", p)
              ELSE IF IsEscape(At(l, p + 1))
                   THEN ParseBasicStr(l, p + 2, Append(acc, EscapeOf(l[p + 1])))
                   ELSE PFail("err", p)
    ELSE IF l[p] \in CtrlChars THEN PFail("err", p)
    ELSE ParseBasicStr(l, p + 1, Append(acc, l[p]))

\* a literal string; p is the position after the opening quote
ParseLiteralStr(l, p) ==
    LET q == SkipUntil(l, p, SQ)
    IN IF q > Len(l) \/ ~NoCtrl(l, p, q - 1) THEN PFail("err", p)
       ELSE [st |-> "ok", s |-> SubSeq(l, p, q - 1), pos |-> q + 1]

ParseKeyPart(l, p) ==
    LET c == At(l, p)
    IN IF c \in BareKeyChars
       THEN LET q == SkipChars(l, p, BareKeyChars)
            IN [st |-> "ok", s |-> SubSeq(l, p, q - 1), pos |-> q]
       ELSE IF c = SQ THEN ParseLiteralStr(l, p + 1)
       ELSE IF c = DQ THEN ParseBasicStr(l, p + 1, <<>>)
       ELSE PFail("err", p)

\* a key: parts separated by dots; path holds the parts read so far and k
\* is the part just read
RECURSIVE ParseKeyRest(_, _, _)
ParseKeyRest(l, path, k) ==
    IF k.st # "ok" THEN [st |-> k.st, path |-> <<>>, pos |-> k.pos]
    ELSE IF At(l, SkipChars(l, k.pos, Ws)) # "."
         THEN [st |-> "ok", path |-> Append(path, k.s), pos |-> SkipChars(l, k.pos, Ws)]
    ELSE ParseKeyRest(l, Append(path, k.s),
                      ParseKeyPart(l, SkipChars(l, SkipChars(l, k.pos, Ws) + 1, Ws)))

ParseKey(l, p) == ParseKeyRest(l, <<>>, ParseKeyPart(l, p))

VFail(st, p) == [st |-> st, val |-> VNone, pos |-> p]

\* a number: the decimal integers 0 and [1-9][0-9]* are read, every other
\* number syntax (sign, float, hex, underscore, date) is outside the subset
ParseNumber(l, p) ==
    LET q == IF l[p] = "0" THEN p + 1 ELSE SkipChars(l, p, DigitChars)
        nxt == At(l, q)
    IN IF nxt \in {".", "e", "E", "_", "-", ":", "x", "b", "o"}
       THEN VFail("unsup", p)
       ELSE [st |-> "ok", val |-> VInt(StrToInt(SubSeq(l, p, q - 1))), pos |-> q]

StrValue(r) == [st |-> r.st, val |-> VStr(r.s), pos |-> r.pos]

ParseValue(l, p) ==
    LET c == At(l, p)
    IN CASE c = DQ ->
              IF At(l, p + 1) = DQ /\ At(l, p + 2) = DQ THEN VFail("unsup", p)
              ELSE StrValue(ParseBasicStr(l, p + 1, <<>>))
         [] c = SQ ->
              IF At(l, p + 1) = SQ /\ At(l, p + 2) = SQ THEN VFail("unsup", p)
              ELSE StrValue(ParseLiteralStr(l, p + 1))
         [] c = "t" ->
              IF p + 3 <= Len(l) /\ SubSeq(l, p, p + 3) = TrueText
              THEN [st |-> "ok", val |-> VBool(TRUE), pos |-> p + 4]
              ELSE VFail("err", p)
         [] c = "f" ->
              IF p + 4 <= Len(l) /\ SubSeq(l, p, p + 4) = FalseText
              THEN [st |-> "ok", val |-> VBool(FALSE), pos |-> p + 5]
              ELSE VFail("err", p)
         [] c \in DigitChars -> ParseNumber(l, p)
         [] c \in {"[", "{", "+", "-", "i", "n"} -> VFail("unsup", p)
         [] OTHER -> VFail("err", p)

\* after a statement: blanks, an optional comment, the end of the line
EndOfStmt(l, p) ==
    LET q == SkipChars(l, p, Ws)
    IN q > Len(l) \/ (l[q] = "#" /\ NoCtrl(l, q + 1, Len(l)))

Stmt(k, path, val) == [k |-> k, path |-> path, val |-> val]

\* [key] once the key k is read
TableStmt(l, k) ==
    IF k.st # "ok" THEN Stmt(k.st, <<>>, VNone)
    ELSE IF At(l, k.pos) # "]" \/ ~EndOfStmt(l, k.pos + 1) THEN Stmt("err", <<>>, VNone)
    ELSE Stmt("table", k.path, VNone)

\* key = value once the key and the value v are read
KvStmt(l, path, v) ==
    IF v.st # "ok" THEN Stmt(v.st, <<>>, VNone)
    ELSE IF ~EndOfStmt(l, v.pos) THEN Stmt("err", <<>>, VNone)
    ELSE Stmt("kv", path, v.val)

\* key = value once the key k is read
KeyStmt(l, k) ==
    IF k.st # "ok" THEN Stmt(k.st, <<>>, VNone)
    ELSE IF At(l, k.pos) # "=" THEN Stmt("err", <<>>, VNone)
    ELSE KvStmt(l, k.path, ParseValue(l, SkipChars(l, k.pos + 1, Ws)))

\* the statement that starts at position p, after the leading blanks
StmtAt(l, p) ==
    IF p > Len(l) THEN Stmt("skip", <<>>, VNone)
    ELSE IF l[p] = "#"
         THEN Stmt(IF NoCtrl(l, p + 1, Len(l)) THEN "skip" ELSE "err", <<>>, VNone)
    ELSE IF l[p] = "["
         THEN IF At(l, p + 1) = "[" THEN Stmt("unsup", <<>>, VNone)
              ELSE TableStmt(l, ParseKey(l, SkipChars(l, p + 1, Ws)))
    ELSE IF l[p] \in KeyInitialChars THEN KeyStmt(l, ParseKey(l, p))
    ELSE Stmt("err", <<>>, VNone)

\* one line of the document as a statement: "skip" (blank or comment),
\* "table" ([a.b]), "kv" (a.b = value), "err" (invalid TOML) or "unsup"
ParseLine(l) == StmtAt(l, SkipChars(l, 1, Ws))

\* the lines of a text, split at the newlines
RECURSIVE SplitLines(_, _)
SplitLines(text, from) ==
    LET q == SkipUntil(text, from, NL)
    IN IF q > Len(text) THEN <<SubSeq(text, from, Len(text))>>
       ELSE <<SubSeq(text, from, q - 1)>> \o SplitLines(text, q + 1)

(***************************************************************************)
(* The mapping the statements of a document build, as far as the commands  *)
(* look at it: the tables under "servers" and their fields.  A header      *)
(* [servers.a.b] or a dotted key makes a nested table, kept as VTable.     *)
(* Other top-level tables and keys are read and ignored.                   *)
(***************************************************************************)
NewDoc ==
    [st |-> "ok", cur |-> <<>>, declared |-> {}, config |-> EmptyConfig]

\* make sure servers[id] is a table
EnsureServer(servers, id) ==
    IF HasServer(servers, id) THEN servers
    ELSE Append(servers, [id |-> id, fields |-> <<>>])

\* make sure servers[id][key] is a (nested) table
EnsureTable(servers, id, key) ==
    LET ss == EnsureServer(servers, id)
    IN ServerPut(ss, id, FieldPut(ServerOf(ss, id), key, VTable))

\* servers[id][key] holds a scalar, which no table or value may replace
ScalarAt(servers, id, key) ==
    /\ HasServer(servers, id)
    /\ HasField(ServerOf(servers, id), key)
    /\ FieldGet(ServerOf(servers, id), key).t # "table"

\* the effect of a table header [path]
ApplyTable(d, path) ==
    IF path \in d.declared THEN [d EXCEPT !.st = "err"]
    ELSE IF path[1] # ServersKey
         THEN [d EXCEPT !.cur = path, !.declared = @ \cup {path}]
    ELSE IF Len(path) >= 3 /\ ScalarAt(d.config.servers, path[2], path[3])
         THEN [d EXCEPT !.st = "err"]
    ELSE [d EXCEPT !.cur = path,
                   !.declared = @ \cup {path},
                   !.config = [hasServers |-> TRUE,
                               servers |->
                                 IF Len(path) = 1 THEN @.servers
                                 ELSE IF Len(path) = 2
                                      THEN EnsureServer(@.servers, path[2])
                                      ELSE EnsureTable(@.servers, path[2], path[3])]]

\* the effect of key = value in the current table
ApplyKv(d, key, val) ==
    LET path == d.cur \o key
    IN IF path[1] # ServersKey THEN d
       ELSE IF Len(path) <= 2 THEN [d EXCEPT !.st = "unsup"]
       ELSE IF Len(path) = 3
            THEN IF HasServer(d.config.servers, path[2])
                    /\ HasField(ServerOf(d.config.servers, path[2]), path[3])
                 THEN [d EXCEPT !.st = "err"]
                 ELSE LET ss == EnsureServer(d.config.servers, path[2])
                      IN [d EXCEPT !.config =
                            [hasServers |-> TRUE,
                             servers |-> ServerPut(ss, path[2],
                                           FieldPut(ServerOf(ss, path[2]), path[3], val))]]
       ELSE IF ScalarAt(d.config.servers, path[2], path[3])
            THEN [d EXCEPT !.st = "err"]
            ELSE [d EXCEPT !.config =
                    [hasServers |-> TRUE,
                     servers |-> EnsureTable(d.config.servers, path[2], path[3])]]

\* the effect of one statement
ApplyStmt(d, stmt) ==
    CASE stmt.k = "skip" -> d
      [] stmt.k = "table" -> ApplyTable(d, stmt.path)
      [] stmt.k = "kv" -> ApplyKv(d, stmt.path, stmt.val)
      [] OTHER -> [d EXCEPT !.st = stmt.k]

\* the statements of the lines i, i+1, ... in turn, up to the first failure
RECURSIVE ApplyLines(_, _, _)
ApplyLines(lines, i, d) ==
    IF i > Len(lines) \/ d.st # "ok" THEN d
    ELSE ApplyLines(lines, i + 1, ApplyStmt(d, ParseLine(lines[i])))

LoadResult(d) ==
    [st |-> d.st, config |-> IF d.st = "ok" THEN d.config ELSE EmptyConfig]

\* tomllib.load of a text: st is "ok", "err" (TOMLDecodeError) or "unsup"
ParseToml(text) == LoadResult(ApplyLines(SplitLines(text, 1), 1, NewDoc))

(***************************************************************************)
(* write_toml: the text of a mapping.  Only boolean, integer and string    *)
(* fields are written; keys, ids and strings are written as they are.      *)
(***************************************************************************)
HeaderLine == Chars("# Sync Shuttle - Server Configuration")

\* the line of one field, or no line for a value of another type
FieldLines(f) ==
    CASE f.val.t = "bool" ->
           <<f.key \o EqualsText \o (IF f.val.b THEN TrueText ELSE FalseText)>>
      [] f.val.t = "int" -> <<f.key \o EqualsText \o IntToStr(f.val.n)>>
      [] f.val.t = "str" -> <<f.key \o EqualsText \o <<DQ>> \o f.val.s \o <<DQ>>>>
      [] OTHER -> <<>>

ServerLines(server) ==
    <<Chars("[servers.") \o server.id \o Chars("]")>>
    \o Flatten([i \in 1..Len(server.fields) |-> FieldLines(server.fields[i])])
    \o << <<>> >>

WriteToml(config) ==
    Join(<<HeaderLine, <<>> >>
         \o Flatten([i \in 1..Len(Servers(config)) |-> ServerLines(Servers(config)[i])]),
         <<NL>>)

(***************************************************************************)
(* The commands, as functions of the loaded mapping.  A result carries the *)
(* exit status, the error that was reported ("" for none), what was        *)
(* printed on standard output (one text per print call), whether           *)
(* write_toml was called, and the mapping held when the command ended.     *)
(***************************************************************************)
Done(stdout, config) ==
    [status |-> 0, err |-> "", stdout |-> stdout, wrote |-> FALSE, config |-> config]

Wrote(stdout, config) ==
    [status |-> 0, err |-> "", stdout |-> stdout, wrote |-> TRUE, config |-> config]

Exit(status, err, config) ==
    [status |-> status, err |-> err, stdout |-> <<>>, wrote |-> FALSE, config |-> config]

ListServers(config) == Done(ServerIds(Servers(config)), config)

\* escape(val) of get_server_bash
Escape(v) == Replace(PyStr(v), SQ, <<SQ, BSL, SQ, SQ>>)

BashLine(var, v) == Chars(var) \o <<"=", SQ>> \o Escape(v) \o <<SQ>>

\* the seven print calls of get_server_bash for the profile of id
BashExport(server, id) ==
    LET user == FieldGetDefault(server, UserKey, VStr(<<>>))
        default_remote_base ==
            IF Truthy(user)
            THEN VStr(Chars("/home/") \o PyStr(user) \o Chars("/.sync-shuttle"))
            ELSE VStr(<<>>)
        remote_base ==
            IF Truthy(FieldGet(server, RemoteBaseKey))
            THEN FieldGet(server, RemoteBaseKey)
            ELSE default_remote_base
    IN <<BashLine("server_name", FieldGetDefault(server, NameKey, VStr(id))),
         BashLine("server_host", FieldGetDefault(server, HostKey, VStr(<<>>))),
         BashLine("server_port", FieldGetDefault(server, PortKey, VInt(22))),
         BashLine("server_user", user),
         BashLine("server_identity_file",
                  FieldGetDefault(server, IdentityFileKey, VStr(<<>>))),
         BashLine("server_remote_base", remote_base),
         BashLine("server_s3_backup",
                  VStr(StrLower(PyStr(FieldGetDefault(server, S3BackupKey, VBool(FALSE))))))>>

\* a mutant of GetServerBash: a profile without the enabled flag counts as enabled
GetServerBash_EnabledByDefault(config, id) ==
    IF ~HasServer(Servers(config), id) THEN Exit(1, "NotFound", config)
    ELSE IF ~Truthy(FieldGetDefault(ServerOf(Servers(config), id), EnabledKey, VBool(TRUE)))
         THEN Exit(1, "Disabled", config)
    ELSE Done(BashExport(ServerOf(Servers(config), id), id), config)

GetServerBash(config, id) ==
    IF ~HasServer(Servers(config), id) THEN Exit(1, "NotFound", config)
    ELSE IF ~Truthy(FieldGetDefault(ServerOf(Servers(config), id), EnabledKey, VBool(FALSE)))
         THEN Exit(1, "Disabled", config)
    ELSE Done(BashExport(ServerOf(Servers(config), id), id), config)

\* json.dumps of a string: the characters of the model that JSON escapes
JsonChar(c) ==
    CASE c = DQ -> <<BSL, DQ>>
      [] c = BSL -> <<BSL, BSL>>
      [] c = NL -> <<BSL, "n">>
      [] c = TAB -> <<BSL, "t">>
      [] c = BSP -> <<BSL, "b">>
      [] c = FF -> <<BSL, "f">>
      [] c = CR -> <<BSL, "r">>
      [] OTHER -> <<c>>

JsonStr(s) == <<DQ>> \o Flatten([i \in 1..Len(s) |-> JsonChar(s[i])]) \o <<DQ>>

JsonValue(v) ==
    CASE v.t = "bool" -> IF v.b THEN TrueText ELSE FalseText
      [] v.t = "int" -> IntToStr(v.n)
      [] v.t = "str" -> JsonStr(v.s)
      [] OTHER -> Chars("{...}")

\* the lines of json.dumps(fields, indent=2) at a nesting depth
JsonFields(fields, indent) ==
    IF Len(fields) = 0 THEN <<Chars("{}")>>
    ELSE <<Chars("{")>>
         \o [i \in 1..Len(fields) |->
               indent \o Chars("  ") \o JsonStr(fields[i].key) \o Chars(": ")
               \o JsonValue(fields[i].val)
               \o (IF i < Len(fields) THEN Chars(",") ELSE <<>>)]
         \o <<indent \o Chars("}")>>

JsonServer(server, last) ==
    LET body == JsonFields(server.fields, Chars("  "))
    IN [i \in 1..Len(body) |->
          (IF i = 1 THEN Chars("  ") \o JsonStr(server.id) \o Chars(": ") ELSE <<>>)
          \o body[i]
          \o (IF i = Len(body) /\ ~last THEN Chars(",") ELSE <<>>)]

JsonDumps(servers) ==
    IF Len(servers) = 0 THEN Chars("{}")
    ELSE Join(<<Chars("{")>>
              \o Flatten([i \in 1..Len(servers) |-> JsonServer(servers[i], i = Len(servers))])
              \o <<Chars("}")>>,
              <<NL>>)

\* get_server_json; hasId is "a server_id was given and is not empty"
GetServerJson(config, hasId, id) ==
    IF hasId
    THEN IF ~HasServer(Servers(config), id) THEN Exit(1, "NotFound", config)
         ELSE Done(<<JsonDumps(<<[id |-> id, fields |-> ServerOf(Servers(config), id)]>>)>>,
                   config)
    ELSE Done(<<JsonDumps(Servers(config))>>, config)

DetailLine(server) ==
    LET f == server.fields
    IN (IF Truthy(FieldGetDefault(f, EnabledKey, VBool(FALSE)))
        THEN EnabledKey ELSE Chars("disabled"))
       \o <<"|">> \o server.id
       \o <<"|">> \o PyStr(FieldGetDefault(f, UserKey, VStr(<<"?">>)))
       \o <<"|">> \o PyStr(FieldGetDefault(f, HostKey, VStr(<<"?">>)))
       \o <<"|">> \o PyStr(FieldGetDefault(f, PortKey, VInt(22)))
       \o <<"|">> \o PyStr(FieldGetDefault(f, NameKey, VStr(server.id)))

ListServersDetail(config) ==
    IF Len(Servers(config)) = 0 THEN Done(<<Chars("NO_SERVERS")>>, config)
    ELSE Done([i \in 1..Len(Servers(config)) |-> DetailLine(Servers(config)[i])], config)

\* a mutant of GetField: a falsy value ("", 0, false) counts as not there
GetField_FalsyIsAbsent(config, id, field) ==
    IF ~HasServer(Servers(config), id) THEN Exit(1, "NotFound", config)
    ELSE IF ~Truthy(FieldGet(ServerOf(Servers(config), id), field))
         THEN Exit(1, "FieldNotFound", config)
    ELSE Done(<<PyStr(FieldGet(ServerOf(Servers(config), id), field))>>, config)

GetField(config, id, field) ==
    IF ~HasServer(Servers(config), id) THEN Exit(1, "NotFound", config)
    ELSE LET value == FieldGet(ServerOf(Servers(config), id), field)
         IN IF value = VNone THEN Exit(1, "FieldNotFound", config)
            ELSE Done(<<PyStr(value)>>, config)

\* the type conversion of set_field
Coerce(raw) ==
    IF StrLower(raw) = TrueText THEN VBool(TRUE)
    ELSE IF StrLower(raw) = FalseText THEN VBool(FALSE)
    ELSE IF IsDigit(raw) THEN VInt(StrToInt(raw))
    ELSE VStr(raw)

\* config["servers"] = {} when the key is not there
WithServers(config) == [config EXCEPT !.hasServers = TRUE]

\* a mutant of SetField: an id that is not there is created
SetField_Creates(config, id, field, raw) ==
    Wrote(<<Chars("Set ") \o id \o <<".">> \o field \o EqualsText \o PyStr(Coerce(raw))>>,
          [hasServers |-> TRUE,
           servers |-> ServerPut(config.servers, id,
                                 FieldPut(IF HasServer(config.servers, id)
                                          THEN ServerOf(config.servers, id) ELSE <<>>,
                                          field, Coerce(raw)))])

SetField(config, id, field, raw) ==
    LET c == WithServers(config)
    IN IF ~HasServer(c.servers, id) THEN Exit(1, "NotFound", c)
       ELSE LET value == Coerce(raw)
                new == [c EXCEPT !.servers =
                          ServerPut(@, id, FieldPut(ServerOf(@, id), field, value))]
            IN Wrote(<<Chars("Set ") \o id \o <<".">> \o field \o EqualsText \o PyStr(value)>>,
                     new)

IdChars == LowerChars \cup DigitChars
IdInnerChars == IdChars \cup {"-"}

\* ^[a-z0-9][a-z0-9-]{1,30}[a-z0-9] matched against the whole of s
IdBody(s) ==
    /\ Len(s) >= 3
    /\ Len(s) <= 32
    /\ s[1] \in IdChars
    /\ s[Len(s)] \in IdChars
    /\ \A i \in 2..(Len(s) - 1) : s[i] \in IdInnerChars

\* re.match(r'^[a-z0-9][a-z0-9-]{1,30}[a-z0-9]$', s): "$" matches at the
\* end of s and also just before a newline that ends s
IdMatch(s) ==
    \/ IdBody(s)
    \/ Len(s) >= 1 /\ s[Len(s)] = NL /\ IdBody(SubSeq(s, 1, Len(s) - 1))

\* a mutant of DefaultProfile: a new profile is enabled
DefaultProfile_Enabled(id) ==
    <<[key |-> NameKey, val |-> VStr(id)],
      [key |-> HostKey, val |-> VStr(<<>>)],
      [key |-> PortKey, val |-> VInt(22)],
      [key |-> UserKey, val |-> VStr(<<>>)],
      [key |-> RemoteBaseKey, val |-> VStr(<<>>)],
      [key |-> EnabledKey, val |-> VBool(TRUE)],
      [key |-> S3BackupKey, val |-> VBool(FALSE)]>>

DefaultProfile(id) ==
    <<[key |-> NameKey, val |-> VStr(id)],
      [key |-> HostKey, val |-> VStr(<<>>)],
      [key |-> PortKey, val |-> VInt(22)],
      [key |-> UserKey, val |-> VStr(<<>>)],
      [key |-> RemoteBaseKey, val |-> VStr(<<>>)],
      [key |-> EnabledKey, val |-> VBool(FALSE)],
      [key |-> S3BackupKey, val |-> VBool(FALSE)]>>

AddServer(config, id) ==
    LET c == WithServers(config)
    IN IF HasServer(c.servers, id) THEN Exit(1, "AlreadyExists", c)
       ELSE IF ~IdMatch(id) THEN Exit(1, "InvalidId", c)
       ELSE Wrote(<<Chars("Added server: ") \o id,
                    Chars("Configure with: sync-shuttle config set ") \o id \o Chars(" host <ip>")>>,
                  [c EXCEPT !.servers = ServerPut(@, id, DefaultProfile(id))])

RemoveServer(config, id) ==
    IF ~HasServer(Servers(config), id) THEN Exit(1, "NotFound", config)
    ELSE Wrote(<<Chars("Removed server: ") \o id>>,
               [config EXCEPT !.servers = ServerDel(@, id)])

(***************************************************************************)
(* The state: the document on disk and the outcome of the last command.    *)
(***************************************************************************)
VARIABLES
    file,      \* [exists, text]: the registry document config_path names
    out,       \* the last command: its arguments, what it loaded, its outcome
    writes,    \* how many times write_toml has rewritten the document
    log,       \* [exists, text]: the ledger log logs_dir/sync.jsonl
    ops,       \* the last load_operations call: its limit and what it returned
    cache,     \* [exists, text]: the remote cache file of the server CachedId
    remote,    \* the last _load_remote_files call: its server and its listing
    disk,      \* the entries under base_dir/local and, for a relative path, under
               \* the working directory, each by its path parts from there
    browse,    \* the browse screen: its search query, cursor, tree and file table
    screen,    \* the last screen composed from the registry: its server nodes
    procs,     \* the command processes running at once: where each one stands
    sized      \* the last size rendered: the size and the texts shown for it

\* the state the command surface works on, and the state the screens read
registryVars == <<file, out, writes>>
ledgerVars == <<log, ops>>
cacheVars == <<cache, remote>>
catalogVars == <<disk, browse>>
tuiVars == <<ledgerVars, cacheVars, catalogVars, screen, procs, sized>>

\* what the steps of one component leave alone
besidesLedger == <<registryVars, cacheVars, catalogVars, screen, procs, sized>>
besidesCache == <<registryVars, ledgerVars, catalogVars, screen, procs, sized>>
besidesCatalog == <<registryVars, ledgerVars, cacheVars, screen, procs, sized>>

vars == <<registryVars, tuiVars>>

\* the most rewrites of the document one behaviour of the model makes
MaxWrites == 2

NoFile == [exists |-> FALSE, text |-> <<>>]
FileOf(text) == [exists |-> TRUE, text |-> text]

(***************************************************************************)
(* The documents a behaviour starts from: no document, the document of an  *)
(* empty registry, and two documents edited by hand.                       *)
(***************************************************************************)
FreshDoc == Join(<<HeaderLine, <<>> >>, <<NL>>)

EditedDoc ==
    Join(<<HeaderLine,
           <<>>,
           Chars("[servers.abc]"),
           Chars("name = \"a\\\"b\""),
           Chars("host = \"it's\""),
           Chars("user = \"bob\""),
           Chars("enabled = true"),
           <<>>,
           Chars("[servers.x-9]"),
           Chars("name = \"x-9\""),
           Chars("port = 2222"),
           <<>> >>, <<NL>>)

QuotedIdDoc ==
    Join(<<Chars("[servers.\"a.b\"]"),
           Chars("enabled = true"),
           <<>>,
           Chars("[servers.abc]"),
           Chars("user = \"bob\""),
           Chars("enabled = true"),
           <<>> >>, <<NL>>)

InitialFiles == {NoFile, FileOf(FreshDoc), FileOf(EditedDoc), FileOf(QuotedIdDoc)}

(***************************************************************************)
(* The arguments the commands are given.                                   *)
(***************************************************************************)
Id32 == Chars("a234567890123456789012345678901z")
Id33 == Chars("a2345678901234567890123456789012z")

\* ids given to add: valid ones, and ones that break the format rule
AddIds ==
    {Chars("abc"), Chars("x-9"), Id32,
     Chars("ab"), Chars("-ab"), Chars("aBc"), Id33, Chars("abc\n")}

\* ids given to the other commands
OpIds == {Chars("abc"), Chars("x-9"), Chars("a.b")}

FieldNames ==
    {Chars("host"), Chars("port"), Chars("enabled"), Chars("identity_file")}

\* field and raw value given to set
SetInputs ==
    {<<Chars("enabled"), Chars("TRUE")>>,
     <<Chars("enabled"), Chars("false")>>,
     <<Chars("port"), Chars("007")>>,
     <<Chars("remote_base"), Chars("0")>>,
     <<Chars("remote_base"), Chars("/srv")>>,
     <<Chars("name"), Chars("a\"b")>>}

\* loaded: load_config returned, and before is the mapping it returned;
\* wrote: write_toml was called, and config is the mapping it was given
NoOut ==
    [cmd |-> "", args |-> <<>>, status |-> 0, err |-> "", stdout |-> <<>>,
     wrote |-> FALSE, loaded |-> FALSE, before |-> EmptyConfig,
     config |-> EmptyConfig]

\* no ledger log, and load_operations not called yet
\* seen is the log as it was when load_operations read it
NoOps ==
    [ran |-> FALSE, limit |-> 0, seen |-> NoFile, raised |-> FALSE,
     operations |-> <<>>]
NoLedger == log = NoFile /\ ops = NoOps

\* no remote cache, and _load_remote_files not called yet
NoServer == [id |-> <<>>, host |-> <<>>]
NoRemote ==
    [ran |-> FALSE, server |-> NoServer, seen |-> NoFile, files |-> <<>>,
     advisory |-> FALSE, error |-> FALSE]
NoCache == cache = NoFile /\ remote = NoRemote

\* nothing under base_dir/local yet, and the browse screen not opened: its
\* search query is the "" of BrowseScreen.__init__, its tree has no node
NoNode == [type |-> "", sender |-> <<>>]
NoTree == [inbox |-> 0, senders |-> <<>>, outbox |-> 0, remote |-> <<>>]
NoListed == [location |-> "", path |-> <<>>, source |-> <<>>]
\* no entry selected, and no ConfirmDialog pushed yet
NoSelected ==
    [none |-> TRUE, name |-> <<>>, parts |-> <<>>, text |-> <<>>, location |-> <<>>]
NoDialog == [open |-> FALSE, file |-> NoSelected, answer |-> ""]
\* row is the cursor_row of the file table, remote tells that the table
\* holds the listing of _load_remote_files, notice is the last notification
\* of the delete action
NoBrowse ==
    [mounted |-> FALSE, raised |-> "", search_query |-> <<>>, cursor |-> NoNode,
     tree |-> NoTree, listed |-> NoListed, table |-> <<>>, header |-> 0,
     row |-> 0, remote |-> FALSE, dialog |-> NoDialog, notice |-> ""]
NoCatalog == disk = {} /\ browse = NoBrowse

\* no screen composed yet, and no command process started
NoBrowser == [mounted |-> FALSE, nodes |-> <<>>]
NoScreen == [kind |-> "", raised |-> "", servers |-> <<>>, browser |-> NoBrowser]
NoProcs == <<>>
\* no size rendered yet
NoSized == [ran |-> FALSE, size |-> <<>>, size_str |-> <<>>, human_size |-> <<>>]
NoTui ==
    /\ NoLedger
    /\ NoCache
    /\ NoCatalog
    /\ screen = NoScreen
    /\ procs = NoProcs
    /\ sized = NoSized

Init ==
    /\ file \in InitialFiles
    /\ out = NoOut
    /\ writes = 0
    /\ NoTui

(***************************************************************************)
(* main                                                                    *)
(***************************************************************************)
\* a mutant of LoadConfig: a document that is not there reads as the empty
\* registry
LoadConfig_MissingIsEmpty(f) ==
    IF ~f.exists THEN [st |-> "ok", config |-> EmptyConfig]
    ELSE ParseToml(f.text)

\* load_config: "missing" exits with status 1, "err" is the uncaught
\* TOMLDecodeError, which ends the interpreter with status 1
LoadConfig(f) ==
    IF ~f.exists THEN [st |-> "missing", config |-> EmptyConfig]
    ELSE ParseToml(f.text)

LoadFailed(cmd, args, ld) ==
    [cmd |-> cmd, args |-> args, status |-> 1,
     err |-> IF ld.st = "missing" THEN "ConfigNotFound" ELSE "DecodeError",
     stdout |-> <<>>, wrote |-> FALSE, loaded |-> FALSE, before |-> EmptyConfig,
     config |-> EmptyConfig]

\* a mutant of UsageError: a usage error exits with status 1 like the rest
UsageError_ExitsOne(cmd, args, loaded, config) ==
    [cmd |-> cmd, args |-> args, status |-> 1, err |-> "Usage",
     stdout |-> <<>>, wrote |-> FALSE, loaded |-> loaded, before |-> config,
     config |-> EmptyConfig]

UsageError(cmd, args, loaded, config) ==
    [cmd |-> cmd, args |-> args, status |-> 2, err |-> "Usage",
     stdout |-> <<>>, wrote |-> FALSE, loaded |-> loaded, before |-> config,
     config |-> EmptyConfig]

Finished(cmd, args, config, res) ==
    [cmd |-> cmd, args |-> args, status |-> res.status, err |-> res.err,
     stdout |-> res.stdout, wrote |-> res.wrote, loaded |-> TRUE,
     before |-> config,
     config |-> IF res.wrote THEN res.config ELSE EmptyConfig]

\* the outcome of a command that needs n arguments after the command name
Outcome(cmd, args, n, ld, res) ==
    IF ld.st # "ok" THEN LoadFailed(cmd, args, ld)
    ELSE IF Len(args) < n THEN UsageError(cmd, args, TRUE, ld.config)
    ELSE Finished(cmd, args, ld.config, res)

\* a command that only reads
Reads(o) ==
    /\ out' = o
    /\ UNCHANGED <<file, writes, tuiVars>>

\* a command that rewrites the document when it gets as far as write_toml
Rewrites(o) ==
    /\ o.wrote => writes < MaxWrites
    /\ out' = o
    /\ file' = IF o.wrote THEN FileOf(WriteToml(o.config)) ELSE file
    /\ writes' = IF o.wrote THEN writes + 1 ELSE writes
    /\ UNCHANGED tuiVars

\* fewer than two arguments: the usage text, before anything is loaded
TooFewArgs ==
    \E args \in {<<>>, <<Chars("servers.toml")>>} :
        /\ out' = UsageError("", args, FALSE, EmptyConfig)
        /\ UNCHANGED <<file, writes, tuiVars>>

UnknownCommand ==
    \E ld \in {LoadConfig(file)} :
        Reads(IF ld.st # "ok" THEN LoadFailed("frobnicate", <<>>, ld)
              ELSE UsageError("frobnicate", <<>>, TRUE, ld.config))

List ==
    \E ld \in {LoadConfig(file)} :
        Reads(Outcome("list", <<>>, 0, ld, ListServers(ld.config)))

ListDetail ==
    \E ld \in {LoadConfig(file)} :
        Reads(Outcome("list-detail", <<>>, 0, ld, ListServersDetail(ld.config)))

Get ==
    \E ld \in {LoadConfig(file)} :
        \E args \in {<<>>} \cup {<<id>> : id \in OpIds} :
            Reads(Outcome("get", args, 1, ld,
                          IF Len(args) < 1 THEN Exit(2, "Usage", ld.config)
                          ELSE GetServerBash(ld.config, args[1])))

GetFieldCmd ==
    \E ld \in {LoadConfig(file)} :
        \E args \in {<<>>, <<Chars("abc")>>}
                    \cup {<<id, f>> : id \in OpIds, f \in FieldNames} :
            Reads(Outcome("get-field", args, 2, ld,
                          IF Len(args) < 2 THEN Exit(2, "Usage", ld.config)
                          ELSE GetField(ld.config, args[1], args[2])))

\* set, with the field and raw value drawn from inputs
SetFrom(inputs) ==
    \E ld \in {LoadConfig(file)} :
        \E args \in {<<>>, <<Chars("abc"), Chars("host")>>}
                    \cup {<<id, fv[1], fv[2]>> : id \in OpIds, fv \in inputs} :
            Rewrites(Outcome("set", args, 3, ld,
                             IF Len(args) < 3 THEN Exit(2, "Usage", ld.config)
                             ELSE SetField(ld.config, args[1], args[2], args[3])))

Set == SetFrom(SetInputs)

Add ==
    \E ld \in {LoadConfig(file)} :
        \E args \in {<<>>} \cup {<<id>> : id \in AddIds} :
            Rewrites(Outcome("add", args, 1, ld,
                             IF Len(args) < 1 THEN Exit(2, "Usage", ld.config)
                             ELSE AddServer(ld.config, args[1])))

Remove ==
    \E ld \in {LoadConfig(file)} :
        \E args \in {<<>>} \cup {<<id>> : id \in OpIds} :
            Rewrites(Outcome("remove", args, 1, ld,
                             IF Len(args) < 1 THEN Exit(2, "Usage", ld.config)
                             ELSE RemoveServer(ld.config, args[1])))

Json ==
    \E ld \in {LoadConfig(file)} :
        \E args \in {<<>>} \cup {<<id>> : id \in OpIds} :
            Reads(Outcome("json", args, 0, ld,
                          IF Len(args) < 1
                          THEN GetServerJson(ld.config, FALSE, <<>>)
                          ELSE GetServerJson(ld.config, Len(args[1]) > 0, args[1])))

Next ==
    \/ TooFewArgs
    \/ UnknownCommand
    \/ List
    \/ ListDetail
    \/ Get
    \/ GetFieldCmd
    \/ Set
    \/ Add
    \/ Remove
    \/ Json

Spec == Init /\ [][Next]_vars

\* every document of a behaviour stays inside the TOML subset of ParseToml
WithinSubset == file.exists => ParseToml(file.text).st # "unsup"

(***************************************************************************)
(* Claims.  A claim about one command is a predicate on out, which holds   *)
(* the arguments, what load_config returned (before) and the outcome; a    *)
(* claim about two commands in a row is an action property.                *)
(***************************************************************************)
\* the id and the profile of the last command's first argument
OutId == out.args[1]
LoadedNow == LoadConfig(file)

\* the defaults section 4.1 documents for a new profile
DocumentedDefaults(id) ==
    <<[key |-> NameKey, val |-> VStr(id)],
      [key |-> HostKey, val |-> VStr(<<>>)],
      [key |-> PortKey, val |-> VInt(22)],
      [key |-> UserKey, val |-> VStr(<<>>)],
      [key |-> RemoteBaseKey, val |-> VStr(<<>>)],
      [key |-> EnabledKey, val |-> VBool(FALSE)],
      [key |-> S3BackupKey, val |-> VBool(FALSE)]>>

\* add(id) of a valid new id has just succeeded, and get(id) comes next
AddThenGet ==
    /\ out.cmd = "add" /\ out.status = 0 /\ IdBody(out.args[1])
    /\ out'.cmd = "get" /\ out'.args = out.args

\* C1 as stated: for every id that satisfies the format rule and is not in
\* the registry, add(id) followed by get(id) returns the profile with the
\* documented defaults, which are what a reload of the document yields.
C1_AddThenGetReturnsDefaults ==
    [][AddThenGet =>
         /\ out'.status = 0
         /\ out'.loaded
         /\ HasServer(out'.before.servers, out.args[1])
         /\ ServerOf(out'.before.servers, out.args[1]) = DocumentedDefaults(out.args[1])]_vars

\* C1 amended: after add(id) of a valid new id, get(id) never returns the
\* profile: it exits with status 1 and prints nothing.  When the rewritten
\* document loads, the failure is Disabled (the default profile has
\* enabled = false) and the reloaded profile holds exactly the documented
\* defaults.
C1_AddThenGetIsDisabled ==
    [][AddThenGet =>
         /\ out'.status = 1
         /\ out'.stdout = <<>>
         /\ out'.loaded =>
              /\ out'.err = "Disabled"
              /\ HasServer(out'.before.servers, out.args[1])
              /\ ServerOf(out'.before.servers, out.args[1])
                   = DocumentedDefaults(out.args[1])]_vars

\* get(abc) on the document that add(abc) made of the empty registry: the
\* profile it finds holds the defaults and is refused as disabled
C1_Witness ==
    /\ writes = 1
    /\ out.cmd = "get" /\ out.args = <<Chars("abc")>>
    /\ out.err = "Disabled"
    /\ out.before.servers = <<[id |-> Chars("abc"), fields |-> DocumentedDefaults(Chars("abc"))]>>
    /\ file = FileOf(WriteToml(AddServer(ParseToml(FreshDoc).config, Chars("abc")).config))

\* C2: add(id) fails with AlreadyExists when id is in the registry, fails
\* with InvalidId when id is not 3 to 32 characters of lowercase letters,
\* digits and dash with a non-dash first and last character, and succeeds
\* otherwise; so every id add creates obeys that rule.
C2_AddFollowsTheIdRule ==
    (out.cmd = "add" /\ out.loaded /\ Len(out.args) = 1) =>
        /\ HasServer(out.before.servers, OutId) => out.err = "AlreadyExists"
        /\ (~HasServer(out.before.servers, OutId) /\ ~IdBody(OutId)) => out.err = "InvalidId"
        /\ (~HasServer(out.before.servers, OutId) /\ IdBody(OutId)) => out.status = 0
        /\ out.wrote => IdBody(OutId)

\* the value the specification says set stores for a raw value
CoercionRule(raw) ==
    IF StrLower(raw) \in {Chars("true"), Chars("false")}
    THEN VBool(StrLower(raw) = Chars("true"))
    ELSE IF Len(raw) > 0 /\ \A i \in 1..Len(raw) : raw[i] \in DigitChars
         THEN VInt(StrToInt(raw))
         ELSE VStr(raw)

\* C3: for every existing profile, field and raw value, setField followed
\* by a reload stores the coerced value: true/false in any letter case the
\* boolean, digits only that integer, any other raw the same string.
C3_SetThenReloadIsCoerced ==
    (out.cmd = "set" /\ out.status = 0) =>
        /\ LoadedNow.st = "ok"
        /\ HasServer(LoadedNow.config.servers, OutId)
        /\ FieldGet(ServerOf(LoadedNow.config.servers, OutId), out.args[2])
             = CoercionRule(out.args[3])

\* C4: setField on an id that is not in the registry fails with NotFound
\* and creates no profile: the ids after the call are the ids before it.
C4_SetOnAbsentIdCreatesNothing ==
    (out.cmd = "set" /\ out.loaded /\ Len(out.args) = 3
       /\ ~HasServer(out.before.servers, OutId)) =>
        /\ out.status = 1
        /\ out.err = "NotFound"
        /\ LoadedNow.st = "ok"
        /\ ServerIds(LoadedNow.config.servers) = ServerIds(out.before.servers)
        /\ ~HasServer(LoadedNow.config.servers, OutId)

\* set was given an id that the registry of two profiles does not hold
C4_Witness ==
    /\ out.cmd = "set" /\ out.loaded /\ Len(out.args) = 3
    /\ Len(out.before.servers) = 2
    /\ ~HasServer(out.before.servers, OutId)
    /\ out.err = "NotFound"

\* C5: after a successful remove(id), get(id) fails with NotFound and so
\* does a second remove(id); remove(id) of an id that is not in the
\* registry fails with NotFound.
C5_RemovedIdIsNotFound ==
    [][/\ (out.cmd = "remove" /\ out.status = 0
             /\ out'.cmd \in {"get", "remove"} /\ out'.args = out.args)
          => (out'.status = 1 /\ out'.err = "NotFound")
       /\ (out'.cmd = "remove" /\ out'.loaded /\ Len(out'.args) = 1
             /\ ~HasServer(out'.before.servers, out'.args[1]))
          => (out'.status = 1 /\ out'.err = "NotFound")]_vars

\* C6: for every registry held in memory, also one loaded from a document
\* edited by hand, writing it with write_toml, reloading it and listing
\* the ids yields the same ids in the same order.
C6_IdsRoundTrip ==
    out.wrote =>
        /\ LoadedNow.st = "ok"
        /\ ServerIds(LoadedNow.config.servers) = ServerIds(out.config.servers)

\* C7: for every profile field whose value is a boolean, an integer or a
\* string (any string, also one with a double quote, a backslash or a
\* newline), writing the registry and reloading it yields the same value
\* of the same type for that field.
C7_ScalarsRoundTrip ==
    out.wrote =>
        \A i \in 1..Len(out.config.servers) :
            \A j \in 1..Len(out.config.servers[i].fields) :
                out.config.servers[i].fields[j].val.t \in {"bool", "int", "str"} =>
                    /\ LoadedNow.st = "ok"
                    /\ HasServer(LoadedNow.config.servers, out.config.servers[i].id)
                    /\ FieldGet(ServerOf(LoadedNow.config.servers, out.config.servers[i].id),
                                out.config.servers[i].fields[j].key)
                         = out.config.servers[i].fields[j].val

\* get was given one id and the document loaded
GetRan == out.cmd = "get" /\ out.loaded /\ Len(out.args) = 1

\* the profile get was asked for, as load_config returned it
GetProfile == ServerOf(out.before.servers, OutId)

\* C8: get (toShellEnv) fails with NotFound when the id is absent and with
\* Disabled when the profile's enabled flag is false or missing; in both
\* failures it prints no line, and NotFound comes before Disabled.
C8_GetRefusesAbsentAndDisabled ==
    GetRan =>
        /\ ~HasServer(out.before.servers, OutId) =>
              (out.status = 1 /\ out.err = "NotFound" /\ out.stdout = <<>>)
        /\ (/\ HasServer(out.before.servers, OutId)
            /\ FieldGet(GetProfile, EnabledKey) \in {VNone, VBool(FALSE)}) =>
              (out.status = 1 /\ out.err = "Disabled" /\ out.stdout = <<>>)

\* get of a profile that has no enabled flag at all was refused as disabled
C8_Witness ==
    /\ GetRan
    /\ HasServer(out.before.servers, OutId)
    /\ FieldGet(GetProfile, EnabledKey) = VNone
    /\ out.err = "Disabled"
    /\ out.stdout = <<>>

\* the seven attributes in the order toShellEnv emits them
ShellAttributes ==
    <<NameKey, HostKey, PortKey, UserKey, IdentityFileKey, RemoteBaseKey, S3BackupKey>>

\* a value wrapped in single quotes, every single quote in it written '\''
ShellQuoted(text) == <<SQ>> \o Replace(text, SQ, <<SQ, BSL, SQ, SQ>>) \o <<SQ>>

\* a stored value that is there and is not the empty string
NonEmpty(v) == v # VNone /\ v # VStr(<<>>)

\* the remote_base the specification derives for a profile
DerivedRemoteBase(server) ==
    IF NonEmpty(FieldGet(server, RemoteBaseKey)) THEN PyStr(FieldGet(server, RemoteBaseKey))
    ELSE IF NonEmpty(FieldGet(server, UserKey))
         THEN Chars("/home/") \o PyStr(FieldGet(server, UserKey)) \o Chars("/.sync-shuttle")
         ELSE <<>>

\* C9: for every enabled profile get (toShellEnv) emits exactly seven lines
\* in the order name, host, port, user, identity_file, remote_base,
\* s3_backup, each value in single quotes with every single quote in it
\* replaced by '\''; the remote_base value is the stored remote_base when
\* that is non-empty, else /home/{user}/.sync-shuttle when user is
\* non-empty, else empty.
C9_SevenQuotedLines ==
    (/\ GetRan
     /\ HasServer(out.before.servers, OutId)
     /\ FieldGet(GetProfile, EnabledKey) = VBool(TRUE)) =>
        /\ out.status = 0
        /\ Len(out.stdout) = 7
        /\ \A i \in 1..7 :
              LET prefix == Chars("server_") \o ShellAttributes[i] \o <<"=">>
                  line == out.stdout[i]
                  stored == FieldGet(GetProfile, ShellAttributes[i])
              IN /\ Len(line) >= Len(prefix) + 2
                 /\ SubSeq(line, 1, Len(prefix) + 1) = prefix \o <<SQ>>
                 /\ line[Len(line)] = SQ
                 /\ (i # 6 /\ stored.t = "str") => line = prefix \o ShellQuoted(stored.s)
                 /\ i = 6 => line = prefix \o ShellQuoted(DerivedRemoteBase(GetProfile))

\* get-field was given an id and a field and the document loaded
GetFieldRan == out.cmd = "get-field" /\ out.loaded /\ Len(out.args) = 2

\* the value get-field was asked for, as load_config returned it
GetFieldStored == FieldGet(ServerOf(out.before.servers, OutId), out.args[2])

\* both messages of get_field are the NotFound outcome
NotFoundKinds == {"NotFound", "FieldNotFound"}

\* C10 as stated: getField fails with NotFound when the server is absent,
\* when the field is absent and when the field is there with a null or
\* empty value; in every other case it returns the stored value.
C10_EmptyValueIsNotFound ==
    GetFieldRan =>
        IF \/ ~HasServer(out.before.servers, OutId)
           \/ GetFieldStored = VNone
           \/ GetFieldStored = VStr(<<>>)
        THEN out.status = 1 /\ out.err \in NotFoundKinds /\ out.stdout = <<>>
        ELSE out.status = 0 /\ out.stdout = <<PyStr(GetFieldStored)>>

\* C10 amended: getField fails with NotFound only when the server is
\* absent or the field is absent from the profile; a field that is there
\* is returned whatever its value, the empty string, 0 and false too, as
\* the text Python's str() gives it.
C10_OnlyAbsentIsNotFound ==
    GetFieldRan =>
        IF \/ ~HasServer(out.before.servers, OutId)
           \/ GetFieldStored = VNone
        THEN out.status = 1 /\ out.err \in NotFoundKinds /\ out.stdout = <<>>
        ELSE out.status = 0 /\ out.stdout = <<PyStr(GetFieldStored)>>

\* get-field returned the empty string a profile stores for host
C10_Witness ==
    /\ GetFieldRan
    /\ HasServer(out.before.servers, OutId)
    /\ GetFieldStored = VStr(<<>>)
    /\ out.status = 0
    /\ out.stdout = << <<>> >>

\* the failure classes of the command surface, by the error of the outcome
NotFoundClass == {"NotFound", "FieldNotFound", "ConfigNotFound"}
InvalidInputClass == {"InvalidId", "AlreadyExists", "Disabled"}
UsageClass == {"Usage"}

FailureClass(err) ==
    IF err \in NotFoundClass THEN "not-found"
    ELSE IF err \in InvalidInputClass THEN "invalid-input"
    ELSE IF err \in UsageClass THEN "usage"
    ELSE "none"

JsonWs == {" ", TAB, NL, CR}
\* control characters, illegal inside a string
JsonCtrlChars == {BSP, TAB, FF, CR, NL}
NullText == Chars("null")

\* a list, and null: values a record field may hold besides the scalars
VList == [t |-> "list", b |-> FALSE, n |-> 0, s |-> <<>>]
VNull == [t |-> "null", b |-> FALSE, n |-> 0, s |-> <<>>]

IsJsonEscape(c) == c \in {DQ, BSL, "/", "b", "f", "n", "r", "t"}
JsonEscapeOf(c) == IF c = "/" THEN "/" ELSE EscapeOf(c)

\* a string; p is the position after the opening quote
RECURSIVE LoadsString(_, _, _)
LoadsString(l, p, acc) ==
    IF p > Len(l) THEN PFail("err", p)
    ELSE IF l[p] = DQ THEN [st |-> "ok", s |-> acc, pos |-> p + 1]
    ELSE IF l[p] = BSL
         THEN IF At(l, p + 1) = "u" THEN PFail("unsup", p)
              ELSE IF IsJsonEscape(At(l, p + 1))
                   THEN LoadsString(l, p + 2, Append(acc, JsonEscapeOf(l[p + 1])))
                   ELSE PFail("err", p)
    ELSE IF l[p] \in JsonCtrlChars THEN PFail("err", p)
    ELSE LoadsString(l, p + 1, Append(acc, l[p]))

\* the digits of a number from position d on; neg: a minus sign came first
LoadsDigits(l, d, neg) ==
    IF At(l, d) \notin DigitChars
    THEN VFail(IF At(l, d) = "I" THEN "unsup" ELSE "err", d)
    ELSE LET q == IF l[d] = "0" THEN d + 1 ELSE SkipChars(l, d, DigitChars)
         IN IF At(l, q) \in {".", "e", "E"} THEN VFail("unsup", d)
            ELSE [st |-> "ok",
                  val |-> VInt(IF neg THEN 0 - StrToInt(SubSeq(l, d, q - 1))
                               ELSE StrToInt(SubSeq(l, d, q - 1))),
                  pos |-> q]

LoadsNumber(l, p) ==
    IF l[p] = "-" THEN LoadsDigits(l, p + 1, TRUE) ELSE LoadsDigits(l, p, FALSE)

LoadsKeyword(l, p, text, val) ==
    IF p + Len(text) - 1 <= Len(l) /\ SubSeq(l, p, p + Len(text) - 1) = text
    THEN [st |-> "ok", val |-> val, pos |-> p + Len(text)]
    ELSE VFail("err", p)

OFail(st, p) == [st |-> st, fields |-> <<>>, pos |-> p]

\* an object read as a value: the commands never look inside it
ObjectValue(r) == [st |-> r.st, val |-> VTable, pos |-> r.pos]

RECURSIVE LoadsValue(_, _)
RECURSIVE LoadsArrayItems(_, _)
RECURSIVE LoadsMember(_, _, _)
RECURSIVE LoadsMemberValue(_, _, _)
RECURSIVE LoadsMemberEnd(_, _, _, _)

\* [ ... ]; p is the position of the bracket
LoadsArray(l, p) ==
    IF At(l, SkipChars(l, p + 1, JsonWs)) = "]"
    THEN [st |-> "ok", val |-> VList, pos |-> SkipChars(l, p + 1, JsonWs) + 1]
    ELSE LoadsArrayItems(l, LoadsValue(l, SkipChars(l, p + 1, JsonWs)))

\* v is the item just read
LoadsArrayItems(l, v) ==
    IF v.st # "ok" THEN VFail(v.st, v.pos)
    ELSE IF At(l, SkipChars(l, v.pos, JsonWs)) = "]"
         THEN [st |-> "ok", val |-> VList, pos |-> SkipChars(l, v.pos, JsonWs) + 1]
    ELSE IF At(l, SkipChars(l, v.pos, JsonWs)) = ","
         THEN LoadsArrayItems(l, LoadsValue(l, SkipChars(l, SkipChars(l, v.pos, JsonWs) + 1, JsonWs)))
    ELSE VFail("err", v.pos)

\* { ... }; p is the position of the brace
LoadsObject(l, p) ==
    IF At(l, SkipChars(l, p + 1, JsonWs)) = "}"
    THEN [st |-> "ok", fields |-> <<>>, pos |-> SkipChars(l, p + 1, JsonWs) + 1]
    ELSE LoadsMember(l, SkipChars(l, p + 1, JsonWs), <<>>)

\* "key": value at position q; fields holds the members read so far
LoadsMember(l, q, fields) ==
    IF At(l, q) # DQ THEN OFail("err", q)
    ELSE LoadsMemberValue(l, fields, LoadsString(l, q + 1, <<>>))

\* k is the key just read
LoadsMemberValue(l, fields, k) ==
    IF k.st # "ok" THEN OFail(k.st, k.pos)
    ELSE IF At(l, SkipChars(l, k.pos, JsonWs)) # ":" THEN OFail("err", k.pos)
    ELSE LoadsMemberEnd(l, fields, k.s,
                        LoadsValue(l, SkipChars(l, SkipChars(l, k.pos, JsonWs) + 1, JsonWs)))

\* v is the value just read for key; a key given twice keeps its last value
LoadsMemberEnd(l, fields, key, v) ==
    IF v.st # "ok" THEN OFail(v.st, v.pos)
    ELSE IF At(l, SkipChars(l, v.pos, JsonWs)) = "}"
         THEN [st |-> "ok", fields |-> FieldPut(fields, key, v.val),
               pos |-> SkipChars(l, v.pos, JsonWs) + 1]
    ELSE IF At(l, SkipChars(l, v.pos, JsonWs)) = ","
         THEN LoadsMember(l, SkipChars(l, SkipChars(l, v.pos, JsonWs) + 1, JsonWs),
                          FieldPut(fields, key, v.val))
    ELSE OFail("err", v.pos)

LoadsValue(l, p) ==
    LET c == At(l, p)
    IN CASE c = DQ -> StrValue(LoadsString(l, p + 1, <<>>))
         [] c = "{" -> ObjectValue(LoadsObject(l, p))
         [] c = "[" -> LoadsArray(l, p)
         [] c = "t" -> LoadsKeyword(l, p, TrueText, VBool(TRUE))
         [] c = "f" -> LoadsKeyword(l, p, FalseText, VBool(FALSE))
         [] c = "n" -> LoadsKeyword(l, p, NullText, VNull)
         [] c = "-" \/ c \in DigitChars -> LoadsNumber(l, p)
         [] c \in {"N", "I"} -> VFail("unsup", p)
         [] OTHER -> VFail("err", p)

\* what json.loads makes of a text: "dict" with its members, or "other" for
\* any value that is not an object; "err" is JSONDecodeError
Loaded(kind, fields) == [st |-> "ok", kind |-> kind, fields |-> fields]
NotLoaded(st) == [st |-> st, kind |-> "", fields |-> <<>>]

\* nothing but blanks may follow the value
LoadsEnd(l, r, kind, fields) ==
    IF r.st # "ok" THEN NotLoaded(r.st)
    ELSE IF SkipChars(l, r.pos, JsonWs) <= Len(l) THEN NotLoaded("err")
    ELSE Loaded(kind, fields)

LoadsObjectEnd(l, r) == LoadsEnd(l, r, "dict", r.fields)

JsonLoads(l) ==
    IF At(l, SkipChars(l, 1, JsonWs)) = "{"
    THEN LoadsObjectEnd(l, LoadsObject(l, SkipChars(l, 1, JsonWs)))
    ELSE LoadsEnd(l, LoadsValue(l, SkipChars(l, 1, JsonWs)), "other", <<>>)

(***************************************************************************)
(* The operation ledger: load_operations                                   *)
(***************************************************************************)
\* the characters str.strip() removes, among those of the model
PyWhitespace == {" ", TAB, NL, CR, FF}

RECURSIVE SkipBack(_, _, _)
SkipBack(s, p, set) ==
    IF p >= 1 /\ s[p] \in set THEN SkipBack(s, p - 1, set) ELSE p

\* text.strip()
Strip(s) == SubSeq(s, SkipChars(s, 1, PyWhitespace), SkipBack(s, Len(s), PyWhitespace))

\* lines[-limit:] for limit >= 0: -0 is 0, so limit 0 takes every line
LastLines(lines, limit) ==
    IF limit = 0 \/ limit >= Len(lines) THEN lines
    ELSE SubSeq(lines, Len(lines) - limit + 1, Len(lines))

\* SyncOperation(...) of a decoded record, each field with its default
SyncOperation(data) ==
    [uuid |-> FieldGetDefault(data, Chars("uuid"), VStr(<<>>)),
     operation |-> FieldGetDefault(data, Chars("operation"), VStr(<<>>)),
     server_id |-> FieldGetDefault(data, Chars("server_id"), VStr(<<>>)),
     source_path |-> FieldGetDefault(data, Chars("source_path"), VStr(<<>>)),
     dest_path |-> FieldGetDefault(data, Chars("dest_path"), VStr(<<>>)),
     timestamp_start |-> FieldGetDefault(data, Chars("timestamp_start"), VStr(<<>>)),
     timestamp_end |-> FieldGetDefault(data, Chars("timestamp_end"), VStr(<<>>)),
     status |-> FieldGetDefault(data, Chars("status"), VStr(<<>>)),
     bytes_transferred |-> FieldGetDefault(data, Chars("bytes_transferred"), VInt(0)),
     dry_run |-> FieldGetDefault(data, Chars("dry_run"), VBool(FALSE))]

Returned(operations) == [raised |-> FALSE, operations |-> operations]
\* data.get on a value that is not a dict: AttributeError, which the
\* except clause does not catch
Raised == [raised |-> TRUE, operations |-> <<>>]

RECURSIVE OperationsFrom(_, _, _)
RECURSIVE OperationsStep(_, _, _, _)

\* the loop over reversed(lines): line i and then the lines before it
OperationsFrom(lines, i, operations) ==
    IF i = 0 THEN Returned(operations)
    ELSE IF Len(lines[i]) = 0 THEN OperationsFrom(lines, i - 1, operations)
    ELSE OperationsStep(lines, i, operations, JsonLoads(lines[i]))

\* data is what json.loads made of line i
OperationsStep(lines, i, operations, data) ==
    IF data.st # "ok" THEN OperationsFrom(lines, i - 1, operations)
    ELSE IF data.kind # "dict" THEN Raised
    ELSE OperationsFrom(lines, i - 1, Append(operations, SyncOperation(data.fields)))

\* the lines load_operations reads from the text of the log
LinesRead(text, limit) == LastLines(SplitLines(Strip(text), 1), limit)

OperationsOf(lines) == OperationsFrom(lines, Len(lines), <<>>)

LoadOperations(f, limit) ==
    IF ~f.exists THEN Returned(<<>>)
    ELSE OperationsOf(LinesRead(f.text, limit))

\* the most lines the writers of a behaviour append to the log, and the
\* largest limit load_operations is given
MaxLogLines == 3
MaxLimit == 3

FullRecord ==
    Chars("{\"uuid\": \"u1\", \"operation\": \"push\", \"server_id\": \"abc\", \"status\": \"ok\", \"bytes_transferred\": 10, \"dry_run\": false}")
SparseRecord == Chars("{\"uuid\": \"u2\"}")
\* the first part of a record whose writer has not finished
TruncatedRecord == Chars("{\"uuid\": \"u3\", \"sta")
\* and the rest of it
RestOfRecord == Chars("tus\": \"ok\"}")

\* the lines writers append: records, lines that are no JSON at all, lines
\* that are JSON but no object, and the blank line
LogLines ==
    {FullRecord, SparseRecord, Chars("oops"),
     Chars("5"), Chars("\"x\""), Chars("[1, 2]"), <<>>}

NewlineCount(text) == Cardinality({i \in 1..Len(text) : text[i] = NL})
EndsLine(text) == IF Len(text) = 0 THEN TRUE ELSE text[Len(text)] = NL

\* a writer (the external executor) appends one whole line
AppendLine ==
    \E l \in LogLines :
        /\ NewlineCount(log.text) < MaxLogLines
        /\ EndsLine(log.text)
        /\ log' = FileOf(log.text \o l \o <<NL>>)
        /\ UNCHANGED <<ops, besidesLedger>>

\* a writer has written the first part of its line
AppendTruncated ==
    /\ NewlineCount(log.text) < MaxLogLines
    /\ EndsLine(log.text)
    /\ log' = FileOf(log.text \o TruncatedRecord)
    /\ UNCHANGED <<ops, besidesLedger>>

\* and writes the rest of it
FinishTruncated ==
    /\ ~EndsLine(log.text)
    /\ log' = FileOf(log.text \o RestOfRecord \o <<NL>>)
    /\ UNCHANGED <<ops, besidesLedger>>

CallLoadOperations ==
    \E limit \in 0..MaxLimit :
        /\ ops' = [ran |-> TRUE, limit |-> limit, seen |-> log,
                   raised |-> LoadOperations(log, limit).raised,
                   operations |-> LoadOperations(log, limit).operations]
        /\ UNCHANGED <<log, besidesLedger>>

\* no registry document and no command run
NoRegistry == file = NoFile /\ out = NoOut /\ writes = 0

LedgerInit ==
    /\ NoRegistry
    /\ NoTui

LedgerNext ==
    \/ AppendLine
    \/ AppendTruncated
    \/ FinishTruncated
    \/ CallLoadOperations

LedgerSpec == LedgerInit /\ [][LedgerNext]_vars

\* every line of every log of a behaviour stays inside the JSON subset
LedgerWithinSubset ==
    \A i \in 1..Len(SplitLines(log.text, 1)) :
        JsonLoads(SplitLines(log.text, 1)[i]).st # "unsup"

\* the physical lines of a text: what the newlines separate, a last line
\* without its newline included
PhysicalLines(text) ==
    IF Len(text) = 0 THEN <<>>
    ELSE IF text[Len(text)] = NL
         THEN SubSeq(SplitLines(text, 1), 1, Len(SplitLines(text, 1)) - 1)
         ELSE SplitLines(text, 1)

\* the last limit of them: none for limit 0
LastPhysical(lines, limit) ==
    IF limit >= Len(lines) THEN lines
    ELSE SubSeq(lines, Len(lines) - limit + 1, Len(lines))

WellFormed(line) == JsonLoads(line).st = "ok" /\ JsonLoads(line).kind = "dict"

\* the records of the well-formed lines among lines[1..i], last line first
RECURSIVE RecordsBackFrom(_, _)
RecordsBackFrom(lines, i) ==
    IF i = 0 THEN <<>>
    ELSE IF WellFormed(lines[i])
         THEN <<SyncOperation(JsonLoads(lines[i]).fields)>> \o RecordsBackFrom(lines, i - 1)
         ELSE RecordsBackFrom(lines, i - 1)

RecordsOf(lines) == RecordsBackFrom(lines, Len(lines))

\* C12: for every log and every limit >= 0, recent(limit) returns at most
\* limit records, the well-formed ones among the last limit physical lines,
\* most recent first; when the log is absent it returns the empty sequence
\* without error.
C12_RecentReturnsLastLimit ==
    ops.ran =>
        /\ ~ops.raised
        /\ Len(ops.operations) <= ops.limit
        /\ ops.operations =
             IF ops.seen.exists
             THEN RecordsOf(LastPhysical(PhysicalLines(ops.seen.text), ops.limit))
             ELSE <<>>

\* C13: for every log, a line that is not a structured key-value record (a
\* truncated last line, arbitrary text, a bare number, string or list) is
\* skipped without raising, and every well-formed record among the lines
\* read is still returned.
C13_MalformedLinesAreSkipped ==
    (ops.ran /\ ops.seen.exists) =>
        /\ ~ops.raised
        /\ ops.operations = RecordsOf(LinesRead(ops.seen.text, ops.limit))

(***************************************************************************)
(* The remote cache: BrowseScreen._load_remote_files                       *)
(***************************************************************************)
\* text.split(sep) for a separator of one character, from position from on
RECURSIVE SplitOn(_, _, _)
SplitOn(text, from, sep) ==
    IF SkipUntil(text, from, sep) > Len(text) THEN <<SubSeq(text, from, Len(text))>>
    ELSE <<SubSeq(text, from, SkipUntil(text, from, sep) - 1)>>
           \o SplitOn(text, SkipUntil(text, from, sep) + 1, sep)

\* text.startswith(prefix)
StartsWith(text, prefix) ==
    Len(text) >= Len(prefix) /\ SubSeq(text, 1, Len(prefix)) = prefix

SuccessMarker == Chars("OK|")
Sentinel == Chars("CACHED")

\* the characters that can occur in a text float() accepts
FloatAlphabet ==
    DigitChars \cup {".", "+", "-", "_", " ", TAB, NL, CR, FF,
                     "e", "E", "i", "n", "f", "a", "t", "y",
                     "I", "N", "F", "A", "T", "Y"}

DotCount(text) == Cardinality({i \in 1..Len(text) : text[i] = "."})
HasDigit(text) == \E i \in 1..Len(text) : text[i] \in DigitChars

\* a float as the digits before the point and the digits after it, without
\* the zeros that do not count
RECURSIVE DropZeros(_)
DropZeros(digits) ==
    IF Len(digits) > 0 /\ digits[Len(digits)] = "0"
    THEN DropZeros(SubSeq(digits, 1, Len(digits) - 1))
    ELSE digits

Float(whole, frac) == [whole |-> whole, frac |-> frac]
Zero == Float(0, <<>>)

FloatOfParts(parts) ==
    Float(IF Len(parts[1]) = 0 THEN 0 ELSE StrToInt(parts[1]),
          IF Len(parts) > 1 THEN DropZeros(parts[2]) ELSE <<>>)

\* float(text): digits with at most one point are read; "err" is
\* ValueError; signs, exponents, inf and nan are outside the subset
ParseFloat(text) ==
    IF Len(text) = 0 THEN [st |-> "err", val |-> Zero]
    ELSE IF \E i \in 1..Len(text) : text[i] \notin FloatAlphabet
         THEN [st |-> "err", val |-> Zero]
    ELSE IF (\A i \in 1..Len(text) : text[i] \in DigitChars \cup {"."})
              /\ DotCount(text) <= 1 /\ HasDigit(text)
         THEN [st |-> "ok", val |-> FloatOfParts(SplitOn(text, 1, "."))]
    ELSE [st |-> "unsup", val |-> Zero]

\* the components of a path that count: not the empty one, not "."
RECURSIVE PathParts(_, _)
PathParts(pieces, i) ==
    IF i > Len(pieces) THEN <<>>
    ELSE IF Len(pieces[i]) = 0 \/ pieces[i] = <<".">> THEN PathParts(pieces, i + 1)
    ELSE <<pieces[i]>> \o PathParts(pieces, i + 1)

\* str(Path(text)) for a relative text: repeated slashes collapse, "."
\* components and a slash at the end go away
PosixPath(text) ==
    IF Len(PathParts(SplitOn(text, 1, "/"), 1)) = 0 THEN <<".">>
    ELSE Join(PathParts(SplitOn(text, 1, "/"), 1), <<"/">>)

\* FileEntry(...) of a record of the cache
RemoteEntry(server, parts, mod_time) ==
    [name |-> parts[2],
     path |-> PosixPath(Chars("remote://") \o server.id \o <<"/">> \o parts[2]),
     size |-> IF IsDigit(parts[1]) THEN StrToInt(parts[1]) ELSE 0,
     modified |-> mod_time,
     location |-> Chars("remote:") \o server.id,
     source |-> server.host]

Listed(files) == [files |-> files, error |-> FALSE]
\* an exception inside the try block: the loop ends, the entries appended
\* so far stay in files, and the error is notified
Failed(files) == [files |-> files, error |-> TRUE]

RECURSIVE RemoteFrom(_, _, _, _)
RECURSIVE RemoteStep(_, _, _, _, _)

\* the loop over lines[1:]: line i and the lines after it
RemoteFrom(server, lines, i, files) ==
    IF i > Len(lines) THEN Listed(files)
    ELSE IF lines[i] = Sentinel THEN RemoteFrom(server, lines, i + 1, files)
    ELSE RemoteStep(server, lines, i, files, SplitOn(lines[i], 1, "|"))

\* parts is line i split at the pipes
RemoteStep(server, lines, i, files, parts) ==
    IF Len(parts) < 2 THEN RemoteFrom(server, lines, i + 1, files)
    ELSE IF Len(parts) = 2
         THEN RemoteFrom(server, lines, i + 1,
                         Append(files, RemoteEntry(server, parts, Zero)))
    ELSE IF ParseFloat(parts[3]).st # "ok" THEN Failed(files)
    ELSE RemoteFrom(server, lines, i + 1,
                    Append(files, RemoteEntry(server, parts, ParseFloat(parts[3]).val)))

\* the try block for the text of the cache file
RemoteOfLines(server, lines) ==
    IF StartsWith(lines[1], SuccessMarker) THEN RemoteFrom(server, lines, 2, <<>>)
    ELSE Listed(<<>>)

RemoteOfFile(server, f) ==
    IF f.exists THEN RemoteOfLines(server, SplitLines(Strip(f.text), 1))
    ELSE Listed(<<>>)

\* files, whether the "No cached data" notice was shown, and whether the
\* "Error reading cache" notice was
Shown(r) == [files |-> r.files, advisory |-> Len(r.files) = 0, error |-> r.error]

LoadRemoteFiles(server, f) == Shown(RemoteOfFile(server, f))

\* the most body lines the cache of a behaviour holds
MaxCacheLines == 3

\* the server whose cache file is cache; every other server has none
CachedId == Chars("abc")
RemoteServers ==
    {[id |-> CachedId, host |-> Chars("h1")],
     [id |-> Chars("x-9"), host |-> Chars("h2")]}

\* line 1 as the refresh of the command line writes it: a success header,
\* a failure header, and a header without the pipe of the marker
CacheHeaders == {Chars("OK|1700"), Chars("ERROR|ssh failed"), Chars("OK")}

\* body lines: records with and without modified_time, a record whose size
\* is no number, the sentinel, a line of one field, and a record whose
\* modified_time is no number
CacheLines ==
    {Chars("10|a.txt|1700"), Chars("5|b.pdf|12.5"), Chars("7|c"),
     Chars("x|d|3"), Sentinel, Chars("junk"), Chars("9|e|xyz")}

\* the refresh creates the cache file with its header
WriteCacheHeader ==
    \E h \in CacheHeaders :
        /\ ~cache.exists
        /\ cache' = FileOf(h \o <<NL>>)
        /\ UNCHANGED <<remote, besidesCache>>

\* and writes one more body line
AppendCacheLine ==
    \E l \in CacheLines :
        /\ cache.exists
        /\ NewlineCount(cache.text) <= MaxCacheLines
        /\ cache' = FileOf(cache.text \o l \o <<NL>>)
        /\ UNCHANGED <<remote, besidesCache>>

\* the cache file _load_remote_files looks for
CacheFileOf(server) == IF server.id = CachedId THEN cache ELSE NoFile

\* a remote node of the location tree is selected
BrowseRemote ==
    \E server \in RemoteServers :
        /\ remote' = [ran |-> TRUE, server |-> server, seen |-> CacheFileOf(server),
                      files |-> LoadRemoteFiles(server, CacheFileOf(server)).files,
                      advisory |-> LoadRemoteFiles(server, CacheFileOf(server)).advisory,
                      error |-> LoadRemoteFiles(server, CacheFileOf(server)).error]
        /\ UNCHANGED <<cache, besidesCache>>

CacheInit ==
    /\ NoRegistry
    /\ NoTui

CacheNext ==
    \/ WriteCacheHeader
    \/ AppendCacheLine
    \/ BrowseRemote

CacheSpec == CacheInit /\ [][CacheNext]_vars

\* every modified_time of every cache of a behaviour stays inside the
\* subset of ParseFloat
CacheWithinSubset ==
    \A i \in 1..Len(SplitLines(cache.text, 1)) :
        Len(SplitOn(SplitLines(cache.text, 1)[i], 1, "|")) > 2 =>
            ParseFloat(SplitOn(SplitLines(cache.text, 1)[i], 1, "|")[3]).st # "unsup"

\* the cache the last call read: its header and its body lines
SeenLines == PhysicalLines(remote.seen.text)
SeenHeaderIsSuccess == Len(SeenLines) > 0 /\ StartsWith(SeenLines[1], SuccessMarker)
SeenBody == SubSeq(SeenLines, 2, Len(SeenLines))

Fields(line) == SplitOn(line, 1, "|")

\* a body line that stands for an entry: two fields or more, not the sentinel
IsRecord(line) == Len(Fields(line)) >= 2 /\ line # Sentinel

\* a record that can be parsed: its modified_time is missing or a number
IsValidRecord(line) ==
    IsRecord(line) /\ (Len(Fields(line)) > 2 => ParseFloat(Fields(line)[3]).st = "ok")

\* what the entry of a record holds, by the format of the cache
EntryMatches(entry, line, server) ==
    /\ entry.size = IF IsDigit(Fields(line)[1]) THEN StrToInt(Fields(line)[1]) ELSE 0
    /\ entry.name = Fields(line)[2]
    /\ Len(Fields(line)) = 2 => entry.modified = Zero
    /\ (Len(Fields(line)) > 2 /\ ParseFloat(Fields(line)[3]).st = "ok") =>
          entry.modified = ParseFloat(Fields(line)[3]).val
    /\ entry.location = Chars("remote:") \o server.id
    /\ entry.source = server.host

EntriesMatch(files, records, server) ==
    /\ Len(files) = Len(records)
    /\ \A i \in 1..Len(records) : EntryMatches(files[i], records[i], server)

\* C14: reading the remote cache of a server returns zero entries with the
\* no-cached-data advisory when the cache file is missing, zero entries
\* when line 1 does not start with the success marker, and otherwise one
\* entry per body line that has at least two pipe-separated fields and is
\* not the sentinel, in file order, with size = the integer in field 1 or 0,
\* name = field 2, modified = field 3 or 0 if missing, location =
\* 'remote:' + serverId and source = the profile's host.
C14_CacheListing ==
    remote.ran =>
        IF ~remote.seen.exists THEN Len(remote.files) = 0 /\ remote.advisory
        ELSE IF ~SeenHeaderIsSuccess THEN Len(remote.files) = 0
        ELSE EntriesMatch(remote.files, SelectSeq(SeenBody, IsRecord), remote.server)

\* C15: for every cache with a success header, a body record that cannot
\* be parsed (fewer than two fields, or a modified_time that is no number)
\* is skipped on its own: every valid record before it and after it is in
\* the listing.
C15_BadRecordIsSkippedAlone ==
    (remote.ran /\ remote.seen.exists /\ SeenHeaderIsSuccess) =>
        EntriesMatch(remote.files, SelectSeq(SeenBody, IsValidRecord), remote.server)

(***************************************************************************)
(* load_servers: the profiles the screens read from the registry document. *)
(* A document tomllib cannot decode and a port int() cannot convert raise, *)
(* and nothing in the screens catches either.                              *)
(***************************************************************************)
\* int(value) of the port: st is "ok", the exception raised, or "unsup" for
\* the texts int() accepts that are not plain decimal digits
IntOf(v) ==
    CASE v.t = "bool" -> [st |-> "ok", n |-> IF v.b THEN 1 ELSE 0]
      [] v.t = "int" -> [st |-> "ok", n |-> v.n]
      [] v.t = "str" ->
           IF IsDigit(v.s) THEN [st |-> "ok", n |-> StrToInt(v.s)]
           ELSE IF \A i \in 1..Len(v.s) : v.s[i] \notin DigitChars
                THEN [st |-> "ValueError", n |-> 0]
                ELSE [st |-> "unsup", n |-> 0]
      [] OTHER -> [st |-> "TypeError", n |-> 0]

ServerConfig(id, props) ==
    [id |-> id,
     name |-> FieldGetDefault(props, NameKey, VStr(id)),
     host |-> FieldGetDefault(props, HostKey, VStr(<<>>)),
     port |-> IntOf(FieldGetDefault(props, PortKey, VInt(22))).n,
     user |-> FieldGetDefault(props, UserKey, VStr(<<>>)),
     remote_base |-> FieldGetDefault(props, RemoteBaseKey, VStr(<<>>)),
     enabled |-> FieldGetDefault(props, EnabledKey, VBool(FALSE)),
     s3_backup |-> FieldGetDefault(props, S3BackupKey, VBool(FALSE))]

\* the first profile, if any, whose port int() refuses
PortFailures(servers) ==
    SelectSeq([i \in 1..Len(servers) |->
                   IntOf(FieldGetDefault(servers[i].fields, PortKey, VInt(22))).st],
              LAMBDA st : st # "ok")

LoadServers(f) ==
    IF ~f.exists THEN [st |-> "ok", servers |-> <<>>]
    ELSE LET ld == ParseToml(f.text)
         IN IF ld.st = "err" THEN [st |-> "TOMLDecodeError", servers |-> <<>>]
            ELSE IF ld.st # "ok" THEN [st |-> ld.st, servers |-> <<>>]
            ELSE IF PortFailures(Servers(ld.config)) # <<>>
                 THEN [st |-> PortFailures(Servers(ld.config))[1], servers |-> <<>>]
                 ELSE [st |-> "ok",
                       servers |-> [i \in 1..Len(Servers(ld.config)) |->
                                      ServerConfig(Servers(ld.config)[i].id,
                                                   Servers(ld.config)[i].fields)]]

(***************************************************************************)
(* The catalog: the entries under base_dir/local.  A path is the sequence  *)
(* of its parts below base_dir/local; an entry is a regular file or a      *)
(* directory.  Sizes and modification times are left out: no listing       *)
(* selects or orders by them.                                              *)
(***************************************************************************)
\* the characters of the names, in code point order: str comparison
AsciiSeq == Chars("-.") \o DigitSeq \o UpperSeq \o <<"_">> \o LowerSeq

Ord(c) == CHOOSE i \in 1..Len(AsciiSeq) : AsciiSeq[i] = c

\* a < b on str
RECURSIVE StrLess(_, _)
StrLess(a, b) ==
    IF Len(b) = 0 THEN FALSE
    ELSE IF Len(a) = 0 THEN TRUE
    ELSE IF a[1] = b[1] THEN StrLess(Tail(a), Tail(b))
    ELSE Ord(a[1]) < Ord(b[1])

\* p < q on Path: the parts compare as a list of str
RECURSIVE PathLess(_, _)
PathLess(p, q) ==
    IF Len(q) = 0 THEN FALSE
    ELSE IF Len(p) = 0 THEN TRUE
    ELSE IF p[1] = q[1] THEN PathLess(Tail(p), Tail(q))
    ELSE StrLess(p[1], q[1])

\* sorted(paths)
RECURSIVE Sorted(_)
Sorted(paths) ==
    IF paths = {} THEN <<>>
    ELSE LET first == CHOOSE p \in paths : \A q \in paths \ {p} : PathLess(p, q)
         IN <<first>> \o Sorted(paths \ {first})

InboxDir == <<Chars("inbox")>>
OutboxDir == <<Chars("outbox")>>

FileAt(path) == [parts |-> path, dir |-> FALSE]
DirAt(path) == [parts |-> path, dir |-> TRUE]

\* path.exists(), path.is_file(), path.is_dir(), path.name
Exists(d, path) == \E e \in d : e.parts = path
IsFile(d, path) == FileAt(path) \in d
IsDir(d, path) == DirAt(path) \in d
Name(path) == path[Len(path)]

IsBelow(path, root) ==
    Len(path) > Len(root) /\ SubSeq(path, 1, Len(root)) = root

\* path.rglob("*"): every entry below path, whatever its name
Rglob(d, path) == {e.parts : e \in {x \in d : IsBelow(x.parts, path)}}

\* path.iterdir(): the entries directly in path
Iterdir(d, path) == {q \in Rglob(d, path) : Len(q) = Len(path) + 1}

\* name.startswith(".")
IsHidden(name) == Len(name) > 0 /\ name[1] = "."

\* fnmatch.fnmatch(name, pat) for patterns of literals, * and ?
RECURSIVE FnMatch(_, _)
FnMatch(name, pat) ==
    IF Len(pat) = 0 THEN Len(name) = 0
    ELSE IF pat[1] = "*"
         THEN IF FnMatch(name, Tail(pat)) THEN TRUE
              ELSE IF Len(name) = 0 THEN FALSE
              ELSE FnMatch(Tail(name), pat)
    ELSE IF Len(name) = 0 THEN FALSE
    ELSE IF pat[1] = "?" \/ pat[1] = name[1] THEN FnMatch(Tail(name), Tail(pat))
    ELSE FALSE

\* the test _load_location_files applies to a name when a query is set
MatchesQuery(name, query) ==
    FnMatch(StrLower(name), <<"*">> \o StrLower(query) \o <<"*">>)

FileEntry(path, location, source) ==
    [name |-> Name(path), path |-> path, location |-> location, source |-> source]

\* the files _load_location_files hands to the file table
LocationFiles(d, query, location, path, source) ==
    LET kept == SelectSeq(Sorted(Rglob(d, path)),
                          LAMBDA f : /\ IsFile(d, f)
                                     /\ IF Len(query) > 0
                                        THEN MatchesQuery(Name(f), query)
                                        ELSE TRUE)
    IN [i \in 1..Len(kept) |-> FileEntry(kept[i], location, source)]

\* the arguments of a _load_location_files call
LocationListed(location, path, source) ==
    [location |-> location, path |-> path, source |-> source]

\* _load_location_files: a path that is not there empties the table and
\* leaves the header as it was; listed keeps the arguments of the call
\* load_files clears the table, which puts its cursor on row 0
LoadLocationFiles(b, d, location, path, source) ==
    IF ~Exists(d, path)
    THEN [b EXCEPT !.listed = LocationListed(location, path, source), !.table = <<>>,
                   !.row = 0, !.remote = FALSE]
    ELSE [b EXCEPT !.listed = LocationListed(location, path, source),
                   !.table = LocationFiles(d, b.search_query, location, path, source),
                   !.header = Len(LocationFiles(d, b.search_query, location, path, source)),
                   !.row = 0, !.remote = FALSE]

\* LocationTree._count_files
CountFiles(d, path) ==
    IF ~Exists(d, path) THEN 0
    ELSE Cardinality({f \in Rglob(d, path) : IsFile(d, f)})

SenderDirs(d) ==
    SelectSeq(Sorted(Iterdir(d, InboxDir)), LAMBDA p : IsDir(d, p))

\* LocationTree._build_tree: the counts of the nodes, one node per
\* directory of the inbox, one node per profile of the registry
BuildTree(d, servers) ==
    [inbox |-> CountFiles(d, InboxDir),
     senders |-> IF Exists(d, InboxDir)
                 THEN [i \in 1..Len(SenderDirs(d)) |->
                         [sender |-> Name(SenderDirs(d)[i]),
                          count |-> CountFiles(d, SenderDirs(d)[i])]]
                 ELSE <<>>,
     outbox |-> CountFiles(d, OutboxDir),
     remote |-> [i \in 1..Len(servers) |->
                   [id |-> servers[i].id, enabled |-> Truthy(servers[i].enabled)]]]

\* FileBrowser._populate_tree at depth 0: directories are added unexpanded
PopulateTree(d, path) ==
    IF ~Exists(d, path) THEN <<>>
    ELSE LET shown == SelectSeq(Sorted(Iterdir(d, path)),
                                LAMBDA p : ~IsHidden(Name(p)))
         IN [i \in 1..Len(shown) |->
               [name |-> Name(shown[i]), dir |-> IsDir(d, shown[i])]]

FileBrowser(d, path) == [mounted |-> TRUE, nodes |-> PopulateTree(d, path)]

\* the data of the nodes of the location tree
InboxNode == [type |-> "inbox", sender |-> <<>>]
OutboxNode == [type |-> "outbox", sender |-> <<>>]
SenderNode(sender) == [type |-> "inbox_sender", sender |-> sender]

TreeNodes(tree) ==
    {InboxNode, OutboxNode}
    \cup {SenderNode(tree.senders[i].sender) : i \in 1..Len(tree.senders)}

\* BrowseScreen.on_tree_node_selected, for the nodes of the local locations
NodeSelected(b, d, node) ==
    CASE node.type = "inbox" -> LoadLocationFiles(b, d, "inbox", InboxDir, <<>>)
      [] node.type = "inbox_sender" ->
           LoadLocationFiles(b, d, "inbox", InboxDir \o <<node.sender>>, node.sender)
      [] node.type = "outbox" -> LoadLocationFiles(b, d, "outbox", OutboxDir, <<>>)
      [] OTHER -> b

(***************************************************************************)
(* The entries an executor or a user may create, and the queries typed.    *)
(***************************************************************************)
MaxEntries == 3

CandidateEntries ==
    {FileAt(OutboxDir \o <<Chars("b.pdf")>>),
     FileAt(OutboxDir \o <<Chars("C.PDF.bak")>>),
     FileAt(OutboxDir \o <<Chars(".keep")>>),
     FileAt(InboxDir \o <<Chars("top.txt")>>),
     FileAt(InboxDir \o <<Chars("amy"), Chars("a.pdf")>>),
     FileAt(InboxDir \o <<Chars("amy"), Chars("old"), Chars("n.txt")>>),
     FileAt(InboxDir \o <<Chars(".tmp"), Chars("x.pdf")>>),
     DirAt(InboxDir \o <<Chars("bob")>>)}

Queries == {<<>>, Chars("*.pdf"), Chars("?.PDF")}

\* the directories a path lies in, below base_dir/local
Parents(path) == {DirAt(SubSeq(path, 1, k)) : k \in 1..(Len(path) - 1)}

\* an entry appears, with the directories that lead to it
CreateEntry ==
    /\ Cardinality(disk \cap CandidateEntries) < MaxEntries
    /\ \E e \in CandidateEntries \ disk :
        /\ disk' = disk \cup {e} \cup Parents(e.parts)
        /\ UNCHANGED <<browse, besidesCatalog>>

\* the application in browse mode: the browse screen opens, the location tree
\* is built, the outbox is listed
MountBrowse ==
    /\ screen = NoScreen
    /\ ~browse.mounted
    /\ browse.raised = ""
    /\ browse' =
         IF LoadServers(file).st # "ok"
         THEN [browse EXCEPT !.raised = LoadServers(file).st]
         ELSE LoadLocationFiles(
                  [browse EXCEPT !.mounted = TRUE,
                                 !.tree = BuildTree(disk, LoadServers(file).servers)],
                  disk, "outbox", OutboxDir, <<>>)
    /\ UNCHANGED <<disk, besidesCatalog>>

\* a node of the location tree is selected
SelectNode ==
    /\ browse.mounted
    /\ \E node \in TreeNodes(browse.tree) :
        /\ browse' = NodeSelected([browse EXCEPT !.cursor = node], disk, node)
        /\ UNCHANGED <<disk, besidesCatalog>>

\* _apply_search: the query is kept, the location under the cursor reloaded
ApplySearch ==
    /\ browse.mounted
    /\ \E query \in Queries :
        /\ browse' =
             IF browse.cursor = NoNode
             THEN [browse EXCEPT !.search_query = query]
             ELSE NodeSelected([browse EXCEPT !.search_query = query],
                               disk, browse.cursor)
        /\ UNCHANGED <<disk, besidesCatalog>>

\* action_refresh: the tree is rebuilt and the outbox listed
Refresh ==
    /\ browse.mounted
    /\ browse' =
         IF LoadServers(file).st # "ok"
         THEN [browse EXCEPT !.mounted = FALSE, !.raised = LoadServers(file).st]
         ELSE LoadLocationFiles(
                  [browse EXCEPT !.tree = BuildTree(disk, LoadServers(file).servers)],
                  disk, "outbox", OutboxDir, <<>>)
    /\ UNCHANGED <<disk, besidesCatalog>>

\* [s for s in servers if s.enabled]
EnabledServers(servers) == SelectSeq(servers, LAMBDA sv : Truthy(sv.enabled))

\* PushScreen.compose and PullScreen.compose
Composed(kind, f, browser) ==
    IF LoadServers(f).st # "ok"
    THEN [NoScreen EXCEPT !.kind = kind, !.raised = LoadServers(f).st]
    ELSE [kind |-> kind, raised |-> "",
          servers |-> EnabledServers(LoadServers(f).servers),
          browser |-> browser]

\* the application in dashboard mode, until a screen raises and ends it: the
\* push or pull screen is opened from the main screen
Dashboard == browse = NoBrowse /\ screen.raised = ""

ComposePush ==
    /\ Dashboard
    /\ screen' = Composed("push", file,
                          IF Exists(disk, OutboxDir)
                          THEN FileBrowser(disk, OutboxDir) ELSE NoBrowser)
    /\ UNCHANGED <<registryVars, ledgerVars, cacheVars, catalogVars, procs, sized>>

ComposePull ==
    /\ Dashboard
    /\ screen' = Composed("pull", file,
                          IF Exists(disk, InboxDir) /\ Iterdir(disk, InboxDir) # {}
                          THEN FileBrowser(disk, InboxDir) ELSE NoBrowser)
    /\ UNCHANGED <<registryVars, ledgerVars, cacheVars, catalogVars, procs, sized>>

CatalogInit ==
    /\ NoRegistry
    /\ NoTui

CatalogNext ==
    \/ CreateEntry
    \/ MountBrowse
    \/ SelectNode
    \/ ApplySearch
    \/ Refresh
    \/ ComposePush
    \/ ComposePull

CatalogSpec == CatalogInit /\ [][CatalogNext]_vars

\* the queries stay within the patterns FnMatch reads: no character class
CatalogWithinSubset == \A i \in 1..Len(browse.search_query) : browse.search_query[i] # "["

(***************************************************************************)
(* Searching and listing the catalog.                                      *)
(***************************************************************************)
\* a step in which _load_location_files ran and filled the file table
TableLoaded ==
    \/ MountBrowse /\ browse'.mounted
    \/ Refresh /\ browse'.mounted
    \/ SelectNode
    \/ ApplySearch /\ browse.cursor # NoNode

\* every file below the location that was listed, in the order of the table
AllEntries(d, l) == LocationFiles(d, <<>>, l.location, l.path, l.source)

\* the lower-cased name matches the lower-cased pattern, taken as it is given
MatchesAsGiven(name, pattern) == FnMatch(StrLower(name), StrLower(pattern))

\* C16: whenever the file table is loaded under a search pattern, it holds
\* exactly the files of the location whose lower-cased name matches the
\* lower-cased glob pattern as given (with "*.pdf", the names that end in
\* ".pdf" in any case); under the empty pattern it holds all of them.
C16_SearchKeepsTheNamesThePatternMatches ==
    [][TableLoaded =>
         browse'.table =
           IF browse'.search_query = <<>>
           THEN AllEntries(disk, browse'.listed)
           ELSE SelectSeq(AllEntries(disk, browse'.listed),
                          LAMBDA e : MatchesAsGiven(e.name, browse'.search_query))]_vars

\* no part of the path below the location directory begins with "."
Visible(path) == \A k \in 2..Len(path) : ~IsHidden(path[k])

\* the files below a directory that the hidden-name rule lets through
VisibleFiles(d, path) == {f \in Rglob(d, path) : IsFile(d, f) /\ Visible(f)}

\* a step in which the location tree was built and its counts taken
TreeBuilt == (MountBrowse \/ Refresh) /\ browse'.mounted

\* C17: no entry whose name begins with "." is enumerated at any level: the
\* file table of the inbox or outbox holds no dot-named file and no file of a
\* dot-named directory, the file-browser tree has no dot-named node, and the
\* counts of the location tree count no such file.
C17_NoDotNamedEntryIsEnumerated ==
    /\ [](\A i \in 1..Len(browse.table) : Visible(browse.table[i].path))
    /\ [](\A i \in 1..Len(screen.browser.nodes) : ~IsHidden(screen.browser.nodes[i].name))
    /\ [][TreeBuilt =>
            /\ browse'.tree.inbox = Cardinality(VisibleFiles(disk, InboxDir))
            /\ browse'.tree.outbox = Cardinality(VisibleFiles(disk, OutboxDir))
            /\ \A i \in 1..Len(browse'.tree.senders) :
                 /\ ~IsHidden(browse'.tree.senders[i].sender)
                 /\ browse'.tree.senders[i].count =
                      Cardinality(VisibleFiles(
                          disk, InboxDir \o <<browse'.tree.senders[i].sender>>))]_vars

\* C18: the inbox is listed recursively, and every entry that lies directly
\* in a per-sender directory of the inbox has that directory's name as its
\* source, at the inbox root as well as at the sender's node.
C18_InboxEntriesCarryTheirSender ==
    /\ [](\A i \in 1..Len(browse.table) :
            (browse.table[i].location = "inbox" /\ Len(browse.table[i].path) = 3)
                => browse.table[i].source = browse.table[i].path[2])
    /\ [][(TableLoaded /\ browse'.listed.path = InboxDir /\ browse'.search_query = <<>>)
            => {browse'.table[i].path : i \in 1..Len(browse'.table)}
                 = {f \in Rglob(disk, InboxDir) : IsFile(disk, f)}]_vars

(***************************************************************************)
(* The screens that read the registry, next to the commands that change it *)
(***************************************************************************)
\* field and raw value given to set while the screens are in use
ScreenSetInputs ==
    {<<Chars("enabled"), Chars("TRUE")>>,
     <<Chars("enabled"), Chars("false")>>,
     <<Chars("port"), Chars("ssh")>>,
     <<Chars("name"), Chars("a\"b")>>}

SetForScreens == SetFrom(ScreenSetInputs)

ScreenNext ==
    \/ List
    \/ ListDetail
    \/ SetForScreens
    \/ Add
    \/ Remove
    \/ MountBrowse
    \/ Refresh
    \/ ComposePush
    \/ ComposePull

ScreenSpec == Init /\ [][ScreenNext]_vars

\* the ids of the profiles in the registry document, in document order
RegistryIds(f) == ServerIds(Servers(LoadConfig(f).config))

\* the id a list-detail line names: its second field
DetailId(line) == SplitOn(line, 1, "|")[2]

\* the registry document is there and tomllib reads it
Decodes(f) == f.exists /\ LoadConfig(f).st = "ok"

\* C19: after any sequence of registry operations the push and pull target
\* lists hold no profile whose enabled flag is false, while list, list-detail
\* and the location tree of the browse screen show every profile of the
\* registry document, enabled or not.
C19_DisabledAreHiddenFromTargetsOnly ==
    /\ [](\A i \in 1..Len(screen.servers) : screen.servers[i].enabled # VBool(FALSE))
    /\ [][(Decodes(file) /\ List)
            => out'.status = 0 /\ out'.stdout = RegistryIds(file)]_vars
    /\ [][(Decodes(file) /\ ListDetail /\ RegistryIds(file) # <<>>)
            => /\ out'.status = 0
               /\ [i \in 1..Len(out'.stdout) |-> DetailId(out'.stdout[i])]
                    = RegistryIds(file)]_vars
    /\ [][(Decodes(file) /\ (MountBrowse \/ Refresh))
            => /\ browse'.mounted
               /\ [i \in 1..Len(browse'.tree.remote) |-> browse'.tree.remote[i].id]
                    = RegistryIds(file)]_vars

(***************************************************************************)
(* Commands run as processes at once.  main loads the document, the        *)
(* command changes the mapping it loaded, and write_toml opens the         *)
(* document for writing, which empties it, and then writes the whole text. *)
(* Nothing locks the document between these steps.                         *)
(***************************************************************************)
Procs == {1, 2}

Idle ==
    [pc |-> "idle", cmd |-> "", args |-> <<>>, loaded |-> EmptyConfig, at |-> 0,
     order |-> 0, out |-> NoOut]

RaceDoc ==
    Join(<<HeaderLine,
           <<>>,
           Chars("[servers.abc]"),
           Chars("host = \"h1\""),
           Chars("enabled = true"),
           <<>>,
           Chars("[servers.x-9]"),
           Chars("port = 2222"),
           <<>> >>, <<NL>>)

\* the mutations the processes run: command and arguments
RaceCommands ==
    {<<"add", <<Chars("n-1")>> >>,
     <<"set", <<Chars("abc"), HostKey, Chars("h9")>> >>,
     <<"set", <<Chars("abc"), PortKey, Chars("9")>> >>,
     <<"remove", <<Chars("x-9")>> >>}

\* a mutant of ConfigAtWrite: the command works on the document as it is when
\* the command runs, not on the mapping main loaded before
ConfigAtWrite_Reloaded(loaded, f) == LoadConfig(f).config

\* the mapping a command changes and writes: the one main loaded
ConfigAtWrite(loaded, f) == loaded

\* the dispatch of main for the three mutations
Mutation(cmd, args, config) ==
    CASE cmd = "add" -> AddServer(config, args[1])
      [] cmd = "set" -> SetField(config, args[1], args[2], args[3])
      [] OTHER -> RemoveServer(config, args[1])

\* how many processes have opened the document for writing so far
Opened(ps) == Cardinality({q \in Procs : ps[q].pc = "opened" \/ ps[q].order > 0})

\* main up to load_config
RaceLoad(p) ==
    /\ procs[p].pc = "idle"
    /\ \E c \in RaceCommands :
        \E ld \in {LoadConfig(file)} :
            procs' = [procs EXCEPT ![p] =
                        IF ld.st # "ok"
                        THEN [@ EXCEPT !.pc = "done", !.cmd = c[1], !.args = c[2],
                                       !.out = LoadFailed(c[1], c[2], ld)]
                        ELSE [@ EXCEPT !.pc = "loaded", !.cmd = c[1], !.args = c[2],
                                       !.loaded = ld.config, !.at = Opened(procs)]]
    /\ UNCHANGED <<registryVars, ledgerVars, cacheVars, catalogVars, screen, sized>>

\* the command up to the open of write_text: a refused command ends here
RaceOpen(p) ==
    /\ procs[p].pc = "loaded"
    /\ \E res \in {Mutation(procs[p].cmd, procs[p].args,
                            ConfigAtWrite(procs[p].loaded, file))} :
        \E o \in {Finished(procs[p].cmd, procs[p].args, procs[p].loaded, res)} :
            /\ procs' = [procs EXCEPT ![p] =
                           [@ EXCEPT !.pc = IF o.wrote THEN "opened" ELSE "done",
                                     !.out = o]]
            /\ file' = IF o.wrote THEN FileOf(<<>>) ELSE file
    /\ UNCHANGED <<out, writes, ledgerVars, cacheVars, catalogVars, screen, sized>>

\* the write of write_text and the report of success
RaceWrite(p) ==
    /\ procs[p].pc = "opened"
    /\ file' = FileOf(WriteToml(procs[p].out.config))
    /\ writes' = writes + 1
    /\ procs' = [procs EXCEPT ![p] = [@ EXCEPT !.pc = "done", !.order = writes + 1]]
    /\ UNCHANGED <<out, ledgerVars, cacheVars, catalogVars, screen, sized>>

RaceInit ==
    /\ file \in {FileOf(RaceDoc), FileOf(FreshDoc)}
    /\ out = NoOut
    /\ writes = 0
    /\ NoLedger
    /\ NoCache
    /\ NoCatalog
    /\ screen = NoScreen
    /\ procs = [p \in Procs |-> Idle]
    /\ sized = NoSized

RaceNext == \E p \in Procs : RaceLoad(p) \/ RaceOpen(p) \/ RaceWrite(p)

RaceSpec == RaceInit /\ [][RaceNext]_vars

\* the document stays within the texts the reader model reads
RaceWithinSubset == file.exists => ParseToml(file.text).st \in {"ok", "err"}

\* the effect of a mutation is in a mapping
EffectIn(cmd, args, config) ==
    CASE cmd = "add" -> HasServer(Servers(config), args[1])
      [] cmd = "set" ->
           /\ HasServer(Servers(config), args[1])
           /\ FieldGet(ServerOf(Servers(config), args[1]), args[2]) = Coerce(args[3])
      [] OTHER -> ~HasServer(Servers(config), args[1])

\* process p reported success: it wrote the document and exited with status 0
Succeeded(p) ==
    procs[p].pc = "done" /\ procs[p].out.wrote /\ procs[p].out.status = 0

\* load, load, write, write: two different mutations, both loaded before
\* either opened the document, and both wrote and reported success
LostUpdateRun ==
    /\ \A p \in Procs : Succeeded(p) /\ procs[p].at = 0
    /\ <<procs[1].cmd, procs[1].args>> # <<procs[2].cmd, procs[2].args>>

FirstWriter == CHOOSE p \in Procs : procs[p].order = 1
LastWriter == CHOOSE p \in Procs : procs[p].order = 2

\* C20: when two different mutations run as processes interleave as load,
\* load, write, write, both report success and the final document is the one
\* the last writer wrote: it has the last writer's effect and lacks the
\* effect of the first.
C20_LoadLoadWriteWriteLosesAnUpdate ==
    LostUpdateRun =>
        /\ file = FileOf(WriteToml(procs[LastWriter].out.config))
        /\ EffectIn(procs[LastWriter].cmd, procs[LastWriter].args,
                    LoadConfig(file).config)
        /\ ~EffectIn(procs[FirstWriter].cmd, procs[FirstWriter].args,
                     LoadConfig(file).config)

\* the interleaving happens: both reported success, one effect is lost
C20_Witness ==
    /\ LostUpdateRun
    /\ LoadConfig(file).st = "ok"
    /\ ~EffectIn(procs[FirstWriter].cmd, procs[FirstWriter].args,
                 LoadConfig(file).config)

(***************************************************************************)
(* Size rendering: FileEntry.size_str and FileBrowser._human_size.  A size *)
(* is the sequence of its base-1024 digits, most significant first, so     *)
(* that sizes of a terabyte and more stay within small integers.  The      *)
(* division by 1024 of a size below 2^53 is exact in floating point, and   *)
(* the format .1f rounds the exact value to the nearest tenth, ties to the *)
(* even tenth.                                                             *)
(***************************************************************************)
Kilo == 1024

UnitNames == <<Chars("B"), Chars("KB"), Chars("MB"), Chars("GB")>>
LastUnit == Chars("TB")

\* the digits of a size given as a number
RECURSIVE Digits1024(_)
Digits1024(n) ==
    IF n < Kilo THEN <<n>> ELSE Digits1024(n \div Kilo) \o <<n % Kilo>>

\* the number a short sequence of digits stands for
RECURSIVE NumberOf(_)
NumberOf(digits) ==
    IF digits = <<>> THEN 0
    ELSE NumberOf(SubSeq(digits, 1, Len(digits) - 1)) * Kilo + digits[Len(digits)]

\* how often the loop divides before it returns: once per unit passed
Divisions(size) ==
    IF Len(size) - 1 < Len(UnitNames) THEN Len(size) - 1 ELSE Len(UnitNames)

UnitOf(size) ==
    IF Divisions(size) < Len(UnitNames) THEN UnitNames[Divisions(size) + 1]
    ELSE LastUnit

\* the value after the divisions: its whole part and its fraction digits
WholePart(size) == NumberOf(SubSeq(size, 1, Len(size) - Divisions(size)))
FractionPart(size) == SubSeq(size, Len(size) - Divisions(size) + 1, Len(size))

\* ten times a fraction: the tenths that carry out, and the fraction left
RECURSIVE TimesTen(_)
TimesTen(frac) ==
    IF frac = <<>> THEN [carry |-> 0, digits |-> <<>>]
    ELSE [carry |-> (Head(frac) * 10 + TimesTen(Tail(frac)).carry) \div Kilo,
          digits |-> <<(Head(frac) * 10 + TimesTen(Tail(frac)).carry) % Kilo>>
                       \o TimesTen(Tail(frac)).digits]

AboveHalf(frac) ==
    IF frac = <<>> THEN FALSE
    ELSE IF frac[1] # Kilo \div 2 THEN frac[1] > Kilo \div 2
    ELSE \E k \in 2..Len(frac) : frac[k] # 0

IsHalf(frac) ==
    IF frac = <<>> THEN FALSE
    ELSE frac[1] = Kilo \div 2 /\ \A k \in 2..Len(frac) : frac[k] = 0

\* the value in tenths, before rounding and rounded as .1f rounds
TenthsBelow(size) == WholePart(size) * 10 + TimesTen(FractionPart(size)).carry

Tenths(size) ==
    IF AboveHalf(TimesTen(FractionPart(size)).digits) THEN TenthsBelow(size) + 1
    ELSE IF IsHalf(TimesTen(FractionPart(size)).digits) /\ TenthsBelow(size) % 2 = 1
         THEN TenthsBelow(size) + 1
    ELSE TenthsBelow(size)

\* f"{value:.1f}"
OneDecimal(tenths) == IntToStr(tenths \div 10) \o <<".">> \o IntToStr(tenths % 10)

\* FileEntry.size_str
SizeStr(size) == OneDecimal(Tenths(size)) \o <<" ">> \o UnitOf(size)

\* FileBrowser._human_size
HumanSize(size) == OneDecimal(Tenths(size)) \o UnitOf(size)

(***************************************************************************)
(* The sizes rendered: up to MaxSizeDigits digits drawn from SizeDigits,   *)
(* below 2^53.                                                             *)
(***************************************************************************)
MaxSizeDigits == 5

SizeDigits == {0, 1, 2, 476, 512, 1023}

SizesOfLen(n) ==
    {size \in [1..n -> SizeDigits] :
        /\ n > 1 => size[1] # 0
        /\ n > 5 => size[1] < 8}

Sizes == UNION {SizesOfLen(n) : n \in 1..MaxSizeDigits}

\* a size waits to be shown
Unrendered(size) == [NoSized EXCEPT !.size = size]

\* the size is rendered, in the file table and in the file browser
RenderSize ==
    /\ ~sized.ran
    /\ sized' = [ran |-> TRUE, size |-> sized.size, size_str |-> SizeStr(sized.size),
                 human_size |-> HumanSize(sized.size)]
    /\ UNCHANGED <<registryVars, ledgerVars, cacheVars, catalogVars, screen, procs>>

SizeInit ==
    /\ NoRegistry
    /\ NoLedger
    /\ NoCache
    /\ NoCatalog
    /\ screen = NoScreen
    /\ procs = NoProcs
    /\ sized \in {Unrendered(size) : size \in Sizes}

SizeNext == RenderSize

SizeSpec == SizeInit /\ [][SizeNext]_vars

\* the text ends with a space and the unit
EndsWithUnit(text, unit) ==
    /\ Len(text) > Len(unit) + 1
    /\ SubSeq(text, Len(text) - Len(unit), Len(text)) = <<" ">> \o unit

\* C21: a size is divided by 1024 until it is below 1024 and shown with the
\* unit reached (B, KB, MB, GB, at most TB), with one decimal place, except
\* that whole bytes are shown with no decimal: 512 is "512 B", 2048 is
\* "2 KB", 1536000 is "1.5 MB".
C21_SizeRendering ==
    sized.ran =>
        /\ EndsWithUnit(sized.size_str, UnitOf(sized.size))
        /\ Len(sized.size) = 1
             => sized.size_str = IntToStr(sized.size[1]) \o Chars(" B")
        /\ Len(sized.size) > 1
             => \E k \in 1..Len(sized.size_str) : sized.size_str[k] = "."
        /\ sized.size = Digits1024(512) => sized.size_str = Chars("512 B")
        /\ sized.size = Digits1024(2048) => sized.size_str = Chars("2 KB")
        /\ sized.size = Digits1024(1536000) => sized.size_str = Chars("1.5 MB")

(***************************************************************************)
(* The types of the documented fields.                                     *)
(***************************************************************************)
\* the type the documentation gives a field, "" for a field it does not name
DocumentedType(key) ==
    CASE key = PortKey -> "int"
      [] key \in {EnabledKey, S3BackupKey} -> "bool"
      [] key \in {NameKey, HostKey, UserKey, RemoteBaseKey} -> "str"
      [] OTHER -> ""

Typed(fields) ==
    \A k \in 1..Len(fields) :
        DocumentedType(fields[k].key) \in {"", fields[k].val.t}

\* C22: after any sequence of add, set and remove on a registry whose fields
\* had their documented types, every profile of the document has an integer
\* port, boolean enabled and s3_backup and string name, host, user and
\* remote_base, and load_servers builds its records without failing.
C22_FieldsKeepTheirTypes ==
    Decodes(file) =>
        /\ \A k \in 1..Len(Servers(LoadConfig(file).config)) :
               Typed(Servers(LoadConfig(file).config)[k].fields)
        /\ LoadServers(file).st = "ok"

(***************************************************************************)
(* The frame of a rewrite: what a successful set, add or remove leaves as  *)
(* it was, read back from the rewritten document.                          *)
(***************************************************************************)
\* the boolean, integer and string fields of a profile, in document order
ScalarFields(fields) ==
    SelectSeq(fields, LAMBDA f : f.val.t \in {"bool", "int", "str"})

FieldsBut(fields, key) == SelectSeq(fields, LAMBDA f : f.key # key)

IdsBut(servers, id) == SelectSeq(ServerIds(servers), LAMBDA i : i # id)

\* the profile id holds the same scalar fields in both registries
SameProfile(before, after, id) ==
    /\ HasServer(after, id)
    /\ ScalarFields(ServerOf(after, id)) = ScalarFields(ServerOf(before, id))

\* every profile of before but id is in after with its scalar fields
OthersKept(before, after, id) ==
    \A k \in 1..Len(before) :
        before[k].id # id => SameProfile(before, after, before[k].id)

\* C23: a successful set changes only the given field of the given profile,
\* a successful add only appends the new profile after the existing ones
\* and a successful remove only deletes the given profile: read back from
\* the rewritten document, every other profile has the boolean, integer and
\* string fields it had, and the remaining ids are in the order they were.
C23_MutationFrame ==
    out.wrote =>
        /\ LoadedNow.st = "ok"
        /\ OthersKept(out.before.servers, LoadedNow.config.servers, OutId)
        /\ out.cmd = "set" =>
             /\ ServerIds(LoadedNow.config.servers) = ServerIds(out.before.servers)
             /\ HasServer(LoadedNow.config.servers, OutId)
             /\ FieldsBut(ScalarFields(ServerOf(LoadedNow.config.servers, OutId)),
                          out.args[2])
                  = FieldsBut(ScalarFields(ServerOf(out.before.servers, OutId)),
                              out.args[2])
        /\ out.cmd = "add" =>
             ServerIds(LoadedNow.config.servers)
               = Append(ServerIds(out.before.servers), OutId)
        /\ out.cmd = "remove" =>
             ServerIds(LoadedNow.config.servers) = IdsBut(out.before.servers, OutId)

(***************************************************************************)
(* What a command that fails, or that only reads, does to the document.    *)
(***************************************************************************)
ReadOnlyCommands == {"list", "list-detail", "get", "get-field", "json"}

\* C24: a command that ends in a failure (NotFound, AlreadyExists,
\* InvalidId, Disabled, a usage error, a missing document) and a command
\* that only reads (list, list-detail, get, get-field, json) leave the
\* document as it was, byte for byte, and create none; add on a missing
\* document fails and does not create it.
C24_FailuresAndReadsLeaveTheDocument ==
    [][/\ (out'.status # 0 \/ out'.cmd \in ReadOnlyCommands) => file' = file
       /\ (out'.cmd = "add" /\ ~file.exists) => (out'.status # 0 /\ ~file'.exists)]_vars

\* add was given an id where no document is, failed, and no document is there
C24_Witness ==
    /\ out.cmd = "add" /\ Len(out.args) = 1
    /\ out.status = 1 /\ out.err = "ConfigNotFound"
    /\ ~file.exists

(***************************************************************************)
(* Deleting from the browse screen: the delete action on the selected      *)
(* entry pushes a ConfirmDialog, whose Yes runs _do_delete.                *)
(***************************************************************************)
\* str(base_dir / "local"): main resolves base_dir, so it is absolute
LocalDirText == Chars("/base/local")

\* the listing the file table holds
TableFiles(b, r) == IF b.remote THEN r.files ELSE b.table

\* an entry of the table as the delete action sees it: parts is path from
\* the directory it is resolved in (base_dir/local for an entry of a local
\* location, the working directory for the relative path of an entry of
\* the cache), text is str(path)
LocalSelected(e) ==
    [none |-> FALSE, name |-> e.name, parts |-> e.path,
     text |-> LocalDirText \o <<"/">> \o Join(e.path, <<"/">>),
     location |-> Chars(e.location)]

RemoteSelected(e) ==
    [none |-> FALSE, name |-> e.name, parts |-> SplitOn(e.path, 1, "/"),
     text |-> e.path, location |-> e.location]

\* FileListTable.get_selected_file
GetSelectedFile(b, r) ==
    IF b.row < Len(TableFiles(b, r))
    THEN IF b.remote THEN RemoteSelected(r.files[b.row + 1])
         ELSE LocalSelected(b.table[b.row + 1])
    ELSE NoSelected

\* the test of action_delete
Deletable(d, f) ==
    /\ ~f.none
    /\ Exists(d, f.parts)
    /\ ~StartsWith(f.text, Chars("remote://"))

\* the BrowseScreen is the screen on top: no dialog covers it
BrowseOnTop == browse.mounted /\ ~browse.dialog.open

\* the entries found where the relative path of a cache entry points
WorkdirEntries ==
    {FileAt(<<Chars("remote:"), CachedId, Chars("a.txt")>>)}

DeleteDisks ==
    {{},
     {FileAt(OutboxDir \o <<Chars("b.pdf")>>), DirAt(OutboxDir),
      FileAt(InboxDir \o <<Chars("amy"), Chars("a.pdf")>>),
      DirAt(InboxDir \o <<Chars("amy")>>), DirAt(InboxDir)},
     {FileAt(OutboxDir \o <<Chars("b.pdf")>>), DirAt(OutboxDir),
      FileAt(<<Chars("remote:"), CachedId, Chars("a.txt")>>),
      DirAt(<<Chars("remote:"), CachedId>>), DirAt(<<Chars("remote:")>>)}}

DeleteCaches ==
    {NoFile,
     FileOf(Chars("OK|1700") \o <<NL>> \o Chars("10|a.txt|1700") \o <<NL>>
            \o Chars("5|b.pdf|12.5") \o <<NL>>)}

\* the node of a remote server in the location tree
RemoteNode(server) == [type |-> "remote", sender |-> <<>>, server |-> server]

\* _load_remote_files: what it records, and the table it leaves
RemoteRan(server) ==
    [ran |-> TRUE, server |-> server, seen |-> CacheFileOf(server),
     files |-> LoadRemoteFiles(server, CacheFileOf(server)).files,
     advisory |-> LoadRemoteFiles(server, CacheFileOf(server)).advisory,
     error |-> LoadRemoteFiles(server, CacheFileOf(server)).error]

RemoteShown(b, server) ==
    [b EXCEPT !.remote = TRUE, !.row = 0,
              !.header = Len(LoadRemoteFiles(server, CacheFileOf(server)).files)]

\* a remote node of the location tree is selected
SelectRemoteNode ==
    /\ BrowseOnTop
    /\ \E server \in RemoteServers :
        /\ \E i \in 1..Len(browse.tree.remote) : browse.tree.remote[i].id = server.id
        /\ remote' = RemoteRan(server)
        /\ browse' = RemoteShown([browse EXCEPT !.cursor = RemoteNode(server)], server)
        /\ UNCHANGED <<registryVars, ledgerVars, cache, disk, screen, procs, sized>>

\* _apply_search with the cursor on a remote node: the cache is read again
SearchAtRemote ==
    /\ BrowseOnTop
    /\ browse.cursor.type = "remote"
    /\ \E query \in Queries :
        /\ remote' = RemoteRan(browse.cursor.server)
        /\ browse' = RemoteShown([browse EXCEPT !.search_query = query],
                                 browse.cursor.server)
        /\ UNCHANGED <<registryVars, ledgerVars, cache, disk, screen, procs, sized>>

\* the cursor of the file table moves to another row
MoveCursor ==
    /\ BrowseOnTop
    /\ \E row \in 0..(Len(TableFiles(browse, remote)) - 1) :
        /\ row # browse.row
        /\ browse' = [browse EXCEPT !.row = row]
        /\ UNCHANGED <<disk, besidesCatalog>>

\* action_delete: the dialog is pushed with the selected entry in its
\* callback, or the warning is shown
ActionDelete ==
    /\ BrowseOnTop
    /\ browse' =
         IF Deletable(disk, GetSelectedFile(browse, remote))
         THEN [browse EXCEPT !.dialog = [open |-> TRUE,
                                          file |-> GetSelectedFile(browse, remote),
                                          answer |-> ""]]
         ELSE [browse EXCEPT !.notice = "Cannot delete remote files"]
    /\ UNCHANGED <<disk, besidesCatalog>>

\* path.unlink(): a path that is no regular file raises
Unlinks(d, parts) == IsFile(d, parts)
Unlinked(d, parts) == d \ {FileAt(parts)}

\* _do_delete: after the unlink, action_refresh rebuilds the tree and lists
\* the outbox; an exception of either is caught and notified
DoDelete(b, d, f) ==
    IF ~Unlinks(d, f.parts) \/ LoadServers(file).st # "ok"
    THEN [b EXCEPT !.notice = "Error"]
    ELSE LoadLocationFiles(
             [b EXCEPT !.notice = "Refreshed",
                       !.tree = BuildTree(Unlinked(d, f.parts),
                                          LoadServers(file).servers)],
             Unlinked(d, f.parts), "outbox", OutboxDir, <<>>)

YesAnswers == {"btn-yes", "y"}
NoAnswers == {"btn-no", "n", "escape"}

\* ConfirmDialog: on_button_pressed and action_confirm call the callback
\* and pop the dialog
ConfirmYes ==
    /\ browse.dialog.open
    /\ \E answer \in YesAnswers :
        /\ disk' = IF Unlinks(disk, browse.dialog.file.parts)
                   THEN Unlinked(disk, browse.dialog.file.parts) ELSE disk
        /\ browse' = [DoDelete(browse, disk, browse.dialog.file)
                        EXCEPT !.dialog = [open |-> FALSE,
                                           file |-> browse.dialog.file,
                                           answer |-> answer]]
        /\ UNCHANGED besidesCatalog

\* on_button_pressed for No and action_cancel only pop the dialog
ConfirmNo ==
    /\ browse.dialog.open
    /\ \E answer \in NoAnswers :
        /\ browse' = [browse EXCEPT !.dialog = [open |-> FALSE,
                                                 file |-> browse.dialog.file,
                                                 answer |-> answer]]
        /\ UNCHANGED <<disk, besidesCatalog>>

DeleteInit ==
    /\ file = FileOf(EditedDoc)
    /\ out = NoOut
    /\ writes = 0
    /\ NoLedger
    /\ cache \in DeleteCaches
    /\ remote = NoRemote
    /\ disk \in DeleteDisks
    /\ browse = NoBrowse
    /\ screen = NoScreen
    /\ procs = NoProcs
    /\ sized = NoSized

DeleteNext ==
    \/ MountBrowse
    \/ BrowseOnTop /\ SelectNode
    \/ SelectRemoteNode
    \/ BrowseOnTop /\ browse.cursor.type # "remote" /\ ApplySearch
    \/ SearchAtRemote
    \/ BrowseOnTop /\ Refresh
    \/ MoveCursor
    \/ ActionDelete
    \/ ConfirmYes
    \/ ConfirmNo

DeleteSpec == DeleteInit /\ [][DeleteNext]_vars

\* the entries a step takes from the disk
RemovedNow == {e \in disk : e \notin disk'}

\* C25: in the browse screen a file is removed only by the Yes of the
\* confirmation dialog that the delete action pushed for the selected entry,
\* and then only that one file; No and Escape remove nothing; no entry
\* whose location is remote:<server_id> and no cache file is ever removed;
\* listing, search and refresh modify no file.
C25_OnlyAConfirmedDeleteRemovesALocalFile ==
    [][/\ RemovedNow # {} =>
            /\ browse.dialog.open
            /\ browse'.dialog.answer \in YesAnswers
            /\ RemovedNow = {FileAt(browse.dialog.file.parts)}
            /\ ~StartsWith(browse.dialog.file.location, Chars("remote:"))
       /\ cache' = cache
       /\ disk' \subseteq disk]_vars

=============================================================================
